---- MODULE Spec2Model ----
(***************************************************************************)
(* Signal scoring, free-text parsing and manual entry of the trading       *)
(* journal: lib/scoring.ts, the record parser, components/signal-input.tsx *)
(* and its way to the store through app/page.tsx, the store client and the *)
(* POST handler of /api/signals.                                           *)
(*                                                                         *)
(* Strings are sequences of characters.  An ASCII character is the one     *)
(* character TLA+ string; a CJK character is named by its code point       *)
(* ("u4EE3" is U+4EE3).  JavaScript values are tagged records:             *)
(*   [t |-> "undefined"], [t |-> "null"], [t |-> "bool", v |-> BOOLEAN],   *)
(*   [t |-> "num", v |-> number], [t |-> "str", v |-> string],             *)
(*   [t |-> "arr", v |-> sequence of values],                              *)
(*   [t |-> "obj", v |-> sequence of <<key, value>> pairs].                *)
(* A number is [nan |-> BOOLEAN, m |-> Int, s |-> Nat]: the decimal        *)
(* m / 10^s with no trailing zero in the fraction, or NaN.                 *)
(***************************************************************************)
EXTENDS Integers, Sequences, FiniteSets, TLC

VARIABLES
  op,           \* which exported function the environment is about to call
  arg,          \* the argument of the call
  defaultDate,  \* parseSignalText's optional second argument
  today,        \* what new Date().toISOString().slice(0, 10) returns
  result,       \* the outcome of the call, [t |-> "pending"] before it
  inputOpen,    \* operation-suggestions.tsx: the entry dialog is open, SignalInput mounted
  mount,        \* how many times the dialog has been opened
  date,         \* SignalInput: date (the fixedDate of the dialog)
  rows,         \* SignalInput: rows
  error,        \* SignalInput: error
  loadingCodes, \* SignalInput: loadingCodes, the ids of the rows being looked up
  codeTimeouts, \* SignalInput: codeTimeoutRefs, [id, value] for each pending timer
  lookups,      \* requests of /api/tushare/stock-info in flight
  edits,        \* the number of updateRow calls so far
  posts,        \* requests of POST /api/signals in flight
  replies,      \* responses of POST /api/signals in flight
  stored,       \* the rows of the signalRecord table
  alerted,      \* page.tsx: handleParsed has shown its alert
  shots,        \* the rows of the sector_screenshots table, a row's id is its index
  uploads,      \* the requests of POST /api/sector-screenshots and how far each has got
  stocks,       \* StocksPage: its props, state and refs, and the requests it has issued
  panel,        \* HistoryPanel: the month shown, selectedDate and selectedSector
  chat          \* the chat panel: messages, input, loading and the request in flight

callVars == <<op, arg, defaultDate, today, result>>

formVars == <<inputOpen, mount, date, rows, error, loadingCodes, codeTimeouts,
              lookups, edits, posts, replies, stored, alerted>>

shotVars == <<shots, uploads>>

\* the state of the pages and routes other than the entry form
pageVars == <<shotVars, stocks, panel, chat>>

vars == <<callVars, formVars, pageVars>>

(***************************************************************************)
(* Bounds of the model.                                                    *)
(***************************************************************************)
\* turnover arguments of a direct calculateScore call: -MaxTenths/10 .. MaxTenths/10
MaxTenths == 120

(***************************************************************************)
(* JavaScript values.                                                      *)
(***************************************************************************)
Undefined == [t |-> "undefined"]
Null == [t |-> "null"]
JBool(b) == [t |-> "bool", v |-> b]
JNum(n) == [t |-> "num", v |-> n]
JStr(s) == [t |-> "str", v |-> s]
JArr(a) == [t |-> "arr", v |-> a]
JObj(o) == [t |-> "obj", v |-> o]

NaN == [nan |-> TRUE, m |-> 0, s |-> 0]

RECURSIVE Pow10(_)
Pow10(k) == IF k = 0 THEN 1 ELSE 10 * Pow10(k - 1)

\* the number m / 10^s, trailing zeros of the fraction removed
RECURSIVE MkNum(_, _)
MkNum(m, s) ==
  IF s > 0 /\ m % 10 = 0 THEN MkNum(m \div 10, s - 1)
  ELSE [nan |-> FALSE, m |-> m, s |-> s]

\* n >= k for a number n and an integer k (false for NaN, as in JavaScript)
NumGE(n, k) == ~n.nan /\ n.m >= k * Pow10(n.s)

NumIsZero(n) == ~n.nan /\ n.m = 0

(***************************************************************************)
(* JavaScript strings: String.prototype methods and the regular            *)
(* expressions the parser and the entry form use.                          *)
(***************************************************************************)
Digits == <<"0", "1", "2", "3", "4", "5", "6", "7", "8", "9">>
Upper == <<"A", "B", "C", "D", "E", "F", "G", "H", "I", "J", "K", "L", "M",
           "N", "O", "P", "Q", "R", "S", "T", "U", "V", "W", "X", "Y", "Z">>
Lower == <<"a", "b", "c", "d", "e", "f", "g", "h", "i", "j", "k", "l", "m",
           "n", "o", "p", "q", "r", "s", "t", "u", "v", "w", "x", "y", "z">>

Range(f) == {f[i] : i \in DOMAIN f}

IsDigit(c) == c \in Range(Digits)
DigitVal(c) == (CHOOSE i \in 1..10 : Digits[i] = c) - 1
IsLetter(c) == c \in Range(Upper) \cup Range(Lower)
\* \s
IsSpace(c) == c \in {" ", "\t", "\n", "\r"}

\* the CJK ideographs (U+4E00..U+9FA5) of the model's alphabet
CJK ==
  {"u6C34", "u4E0B", "u62C9", "u4E0A", "u6CE2", "u52A8", "u4E09", "u89D2",
   "u6536", "u7A84", "u4EE3", "u7801", "u80A1", "u7968", "u540D", "u79F0",
   "u7B80", "u677F", "u5757", "u6982", "u5FF5", "u5206", "u65F6", "u4FE1",
   "u53F7", "u6362", "u624B", "u7387", "u89E6", "u53D1", "u95F4", "u6DA8",
   "u8DCC", "u5E45", "u6210", "u4EA4", "u989D", "u8D44", "u4EA7", "u8D1F",
   "u503A", "u65E5", "u671F", "u662F", "u767D", "u9152", "u4EBF", "u4E07",
   "u672A", "u7C7B"}

\* fullwidth comma, ideographic comma, fullwidth colon, fullwidth percent
FullComma == "uFF0C"
IdeoComma == "u3001"
FullColon == "uFF1A"
FullPercent == "uFF05"

toLowerCase(s) ==
  [i \in 1..Len(s) |->
     IF s[i] \in Range(Upper)
       THEN Lower[CHOOSE k \in 1..26 : Upper[k] = s[i]]
       ELSE s[i]]

\* s without its leading white space
trimStart(s) ==
  LET kept == {i \in 1..Len(s) : ~IsSpace(s[i])}
  IN IF kept = {} THEN <<>>
     ELSE SubSeq(s, CHOOSE i \in kept : \A j \in kept : i <= j, Len(s))

\* s without its trailing white space
trimEnd(s) ==
  LET kept == {i \in 1..Len(s) : ~IsSpace(s[i])}
  IN IF kept = {} THEN <<>>
     ELSE SubSeq(s, 1, CHOOSE i \in kept : \A j \in kept : j <= i)

trim(s) == trimEnd(trimStart(s))

startsWith(s, prefix) ==
  Len(s) >= Len(prefix) /\ SubSeq(s, 1, Len(prefix)) = prefix

includes(s, sub) ==
  \E i \in 1..(Len(s) - Len(sub) + 1) : SubSeq(s, i, i + Len(sub) - 1) = sub

hasChar(s, chars) == \E i \in 1..Len(s) : s[i] \in chars

\* s.split(sep) for a one-character separator, or a character class: the
\* pieces between the separators, one more than there are separators
split(s, seps) ==
  LET at == {i \in 1..Len(s) : s[i] \in seps}
      n == Cardinality(at)
      \* the index of the k-th separator; 0 before the first, Len(s) + 1 after the last
      sep(k) == IF k = 0 THEN 0
                ELSE IF k = n + 1 THEN Len(s) + 1
                ELSE CHOOSE i \in at : Cardinality({j \in at : j <= i}) = k
  IN [k \in 1..(n + 1) |-> SubSeq(s, sep(k - 1) + 1, sep(k) - 1)]

\* s.replace(/[chars]/g, "")
removeAll(s, chars) == SelectSeq(s, LAMBDA c : c \notin chars)

\* s.replace(ch, ""): the first occurrence only
replaceFirst(s, ch) ==
  IF \E i \in 1..Len(s) : s[i] = ch
    THEN LET i == CHOOSE k \in 1..Len(s) : s[k] = ch /\ \A j \in 1..(k - 1) : s[j] # ch
         IN SubSeq(s, 1, i - 1) \o SubSeq(s, i + 1, Len(s))
    ELSE s

\* s.padStart(n, "0")
RECURSIVE padStart(_, _)
padStart(s, n) == IF Len(s) >= n THEN s ELSE padStart(<<"0">> \o s, n)

\* array.map(f), array.filter(f)
MapSeq(f(_), a) == [i \in 1..Len(a) |-> f(a[i])]

\* the index of the first element satisfying test, 0 when there is none
FindIndex(test(_), a) ==
  IF \E i \in 1..Len(a) : test(a[i])
    THEN CHOOSE i \in 1..Len(a) : test(a[i]) /\ \A j \in 1..(i - 1) : ~test(a[j])
    ELSE 0

(***************************************************************************)
(* Numbers and strings: parseFloat, String(number).                        *)
(***************************************************************************)
\* the length of the longest run of digits of s starting at index i
digitRun(s, i) ==
  LET stops == {j \in i..Len(s) : ~IsDigit(s[j])}
  IN IF i > Len(s) THEN 0
     ELSE IF stops = {} THEN Len(s) - i + 1
     ELSE (CHOOSE j \in stops : \A k \in stops : j <= k) - i

\* the value of the digits s[i .. i + n - 1]
RECURSIVE digitsVal(_, _, _)
digitsVal(s, i, n) ==
  IF n = 0 THEN 0 ELSE digitsVal(s, i, n - 1) * 10 + DigitVal(s[i + n - 1])

\* The decimal literal that starts at s[i]: sign, digits, fraction, exponent,
\* read in that order, each step adding its fields to the record of the step
\* before.  The result is [ok, v, i]: whether there is a literal, its value,
\* the index after it.
decimalSign(s, i) ==
  [neg |-> i <= Len(s) /\ s[i] = "-",
   i1 |-> IF i <= Len(s) /\ s[i] \in {"-", "+"} THEN i + 1 ELSE i]

decimalInteger(s, d) == d @@ [nInt |-> digitRun(s, d.i1)]

decimalDot(s, d) ==
  d @@ [dot |-> d.i1 + d.nInt <= Len(s) /\ s[d.i1 + d.nInt] = "."]

decimalFraction(s, d) ==
  d @@ [nFrac |-> IF d.dot THEN digitRun(s, d.i1 + d.nInt + 1) ELSE 0]

\* i3: the index after the mantissa; a "." with no digit around it is no part of it
decimalMantissa(s, d) ==
  d @@ [i3 |-> IF d.dot /\ (d.nInt > 0 \/ d.nFrac > 0)
                 THEN d.i1 + d.nInt + 1 + d.nFrac
                 ELSE d.i1 + d.nInt,
        mant |-> digitsVal(s, d.i1, d.nInt) * Pow10(d.nFrac)
                   + digitsVal(s, d.i1 + d.nInt + 1, d.nFrac)]

\* i4: the index of the first digit of the exponent, were there one
decimalExponentMark(s, d) ==
  d @@ [hasE |-> d.i3 <= Len(s) /\ s[d.i3] \in {"e", "E"},
        expNeg |-> d.i3 + 1 <= Len(s) /\ s[d.i3] \in {"e", "E"} /\ s[d.i3 + 1] = "-",
        i4 |-> IF d.i3 + 1 <= Len(s) /\ s[d.i3] \in {"e", "E"} /\ s[d.i3 + 1] \in {"-", "+"}
                 THEN d.i3 + 2 ELSE d.i3 + 1]

decimalExponent(s, d) ==
  d @@ [nExp |-> IF d.hasE THEN digitRun(s, d.i4) ELSE 0]

decimalValue(s, d) ==
  LET x == digitsVal(s, d.i4, d.nExp)
      m == IF d.neg THEN 0 - d.mant ELSE d.mant
  IN [ok |-> d.nInt + d.nFrac > 0,
      v |-> IF d.nExp = 0 THEN MkNum(m, d.nFrac)
            ELSE IF d.expNeg THEN MkNum(m, d.nFrac + x)
            ELSE IF x >= d.nFrac THEN MkNum(m * Pow10(x - d.nFrac), 0)
            ELSE MkNum(m, d.nFrac - x),
      i |-> IF d.nExp > 0 THEN d.i4 + d.nExp ELSE d.i3,
      nInt |-> d.nInt, nFrac |-> d.nFrac, dot |-> d.dot, i1 |-> d.i1]

decimalPrefix(s, i) ==
  decimalValue(s,
    decimalExponent(s,
      decimalExponentMark(s,
        decimalMantissa(s,
          decimalFraction(s,
            decimalDot(s,
              decimalInteger(s,
                decimalSign(s, i))))))))

\* parseFloat(s): the longest decimal literal after leading white space, else
\* NaN ("Infinity" is outside the model's alphabet)
parseFloat(s) ==
  LET d == decimalPrefix(trimStart(s), 1)
  IN IF d.ok THEN d.v ELSE NaN

RECURSIVE natToString(_)
natToString(n) ==
  IF n < 10 THEN <<Digits[n + 1]>>
  ELSE Append(natToString(n \div 10), Digits[(n % 10) + 1])

RECURSIVE zeroPad(_, _)
zeroPad(s, n) == IF Len(s) >= n THEN s ELSE zeroPad(<<"0">> \o s, n)

\* String(n) for a number n
numToString(n) ==
  IF n.nan THEN <<"N", "a", "N">>
  ELSE LET a == IF n.m < 0 THEN 0 - n.m ELSE n.m
           whole == natToString(a \div Pow10(n.s))
           frac == IF n.s = 0 THEN <<>>
                   ELSE <<".">> \o zeroPad(natToString(a % Pow10(n.s)), n.s)
       IN (IF n.m < 0 THEN <<"-">> ELSE <<>>) \o whole \o frac

(***************************************************************************)
(* JavaScript values: truthiness, String(v), property access, JSON.parse.  *)
(***************************************************************************)
\* !!v
truthy(v) ==
  CASE v.t = "undefined" -> FALSE
    [] v.t = "null" -> FALSE
    [] v.t = "bool" -> v.v
    [] v.t = "num" -> ~v.v.nan /\ v.v.m # 0
    [] v.t = "str" -> Len(v.v) > 0
    [] OTHER -> TRUE

\* a || b
orElse(a, b) == IF truthy(a) THEN a ELSE b

\* String(v); an array prints its elements joined by ",", null and undefined
\* elements as ""
RECURSIVE toString(_)
RECURSIVE joinValues(_, _)
joinValues(a, i) ==
  IF i > Len(a) THEN <<>>
  ELSE (IF i > 1 THEN <<",">> ELSE <<>>)
         \o (IF a[i].t \in {"null", "undefined"} THEN <<>> ELSE toString(a[i]))
         \o joinValues(a, i + 1)

toString(v) ==
  CASE v.t = "undefined" -> <<"u", "n", "d", "e", "f", "i", "n", "e", "d">>
    [] v.t = "null" -> <<"n", "u", "l", "l">>
    [] v.t = "bool" -> IF v.v THEN <<"t", "r", "u", "e">>
                       ELSE <<"f", "a", "l", "s", "e">>
    [] v.t = "num" -> numToString(v.v)
    [] v.t = "str" -> v.v
    [] v.t = "arr" -> joinValues(v.v, 1)
    [] v.t = "obj" -> <<"[", "o", "b", "j", "e", "c", "t", " ",
                        "O", "b", "j", "e", "c", "t", "]">>

\* v[key] for a value v that is neither null nor undefined: the value of the
\* last member named key of an object, undefined otherwise
getProp(v, key) ==
  IF v.t = "obj" /\ \E i \in 1..Len(v.v) : v.v[i][1] = key
    THEN v.v[CHOOSE i \in 1..Len(v.v) :
               v.v[i][1] = key /\ \A j \in (i + 1)..Len(v.v) : v.v[j][1] # key][2]
    ELSE Undefined

\* raw[key] = value
setProp(obj, key, value) == JObj(Append(obj.v, <<key, value>>))

\* JSON.parse: white space, strings without escapes, numbers, true, false,
\* null, arrays and objects.  Each parser returns [ok, v, i]: whether a value
\* starts at the index, the value, and the index after it.
JsonFail == [ok |-> FALSE, v |-> Undefined, i |-> 0]
JsonOk(v, i) == [ok |-> TRUE, v |-> v, i |-> i]

IsJsonSpace(c) == c \in {" ", "\t", "\n", "\r"}

\* the index of the first character at or after i that is no white space
skipWS(s, i) ==
  LET stops == {j \in i..Len(s) : ~IsJsonSpace(s[j])}
  IN IF i > Len(s) THEN i
     ELSE IF stops = {} THEN Len(s) + 1
     ELSE CHOOSE j \in stops : \A k \in stops : j <= k

charAt(s, i) == IF i >= 1 /\ i <= Len(s) THEN s[i] ELSE ""

jsonLiteral(s, i, word, v) ==
  IF i + Len(word) - 1 <= Len(s) /\ SubSeq(s, i, i + Len(word) - 1) = word
    THEN JsonOk(v, i + Len(word)) ELSE JsonFail

\* the string whose opening quote is s[i]
jsonString(s, i) ==
  IF \E j \in (i + 1)..Len(s) : s[j] = "\""
    THEN LET j == CHOOSE k \in (i + 1)..Len(s) :
                    s[k] = "\"" /\ \A l \in (i + 1)..(k - 1) : s[l] # "\""
             body == SubSeq(s, i + 1, j - 1)
         IN IF hasChar(body, {"\t", "\n", "\r"}) THEN JsonFail
            ELSE JsonOk(JStr(body), j + 1)
    ELSE JsonFail

\* the number that starts at s[i]: -? (0 | [1-9] digits) (. digits+)? exponent?
jsonNumberOf(s, i, d) ==
  IF /\ d.ok
     /\ s[i] # "+"
     /\ d.nInt >= 1
     /\ (d.nInt = 1 \/ s[d.i1] # "0")
     /\ (charAt(s, d.i1 + d.nInt) = "." => d.nFrac >= 1)
    THEN JsonOk(JNum(d.v), d.i)
    ELSE JsonFail

jsonNumber(s, i) == jsonNumberOf(s, i, decimalPrefix(s, i))

RECURSIVE jsonValue(_, _)
RECURSIVE jsonElements(_, _, _)
RECURSIVE jsonMembers(_, _, _)

\* after an element of an array, acc holding it: "," and more elements, or "]"
jsonElementNext(s, acc, j) ==
  IF charAt(s, j) = "," THEN jsonElements(s, j + 1, acc)
  ELSE IF charAt(s, j) = "]" THEN JsonOk(JArr(acc), j + 1)
  ELSE JsonFail

jsonElementRead(s, acc, e) ==
  IF e.ok THEN jsonElementNext(s, Append(acc, e.v), skipWS(s, e.i)) ELSE JsonFail

\* the elements of an array after "[" or ",": value, then "," or "]"
jsonElements(s, i, acc) == jsonElementRead(s, acc, jsonValue(s, i))

\* after a member of an object, acc holding it: "," and more members, or "}"
jsonMemberNext(s, acc, j) ==
  IF charAt(s, j) = "," THEN jsonMembers(s, j + 1, acc)
  ELSE IF charAt(s, j) = "}" THEN JsonOk(JObj(acc), j + 1)
  ELSE JsonFail

jsonMemberRead(s, acc, name, val) ==
  IF val.ok THEN jsonMemberNext(s, Append(acc, <<name, val.v>>), skipWS(s, val.i))
  ELSE JsonFail

jsonMemberValue(s, acc, name, c) ==
  IF charAt(s, c) = ":" THEN jsonMemberRead(s, acc, name, jsonValue(s, c + 1))
  ELSE JsonFail

jsonMemberColon(s, acc, key) ==
  IF key.ok THEN jsonMemberValue(s, acc, key.v.v, skipWS(s, key.i)) ELSE JsonFail

jsonMemberKey(s, acc, k0) ==
  IF charAt(s, k0) = "\"" THEN jsonMemberColon(s, acc, jsonString(s, k0)) ELSE JsonFail

\* the members of an object after "{" or ",": string, ":", value, then "," or "}"
jsonMembers(s, i, acc) == jsonMemberKey(s, acc, skipWS(s, i))

\* the value that starts at the character s[i], which is no white space
jsonValueAt(s, i, c) ==
  CASE c = "[" -> IF charAt(s, skipWS(s, i + 1)) = "]"
                    THEN JsonOk(JArr(<<>>), skipWS(s, i + 1) + 1)
                    ELSE jsonElements(s, i + 1, <<>>)
    [] c = "{" -> IF charAt(s, skipWS(s, i + 1)) = "}"
                    THEN JsonOk(JObj(<<>>), skipWS(s, i + 1) + 1)
                    ELSE jsonMembers(s, i + 1, <<>>)
    [] c = "\"" -> jsonString(s, i)
    [] c = "t" -> jsonLiteral(s, i, <<"t", "r", "u", "e">>, JBool(TRUE))
    [] c = "f" -> jsonLiteral(s, i, <<"f", "a", "l", "s", "e">>, JBool(FALSE))
    [] c = "n" -> jsonLiteral(s, i, <<"n", "u", "l", "l">>, Null)
    [] c = "-" \/ IsDigit(c) -> jsonNumber(s, i)
    [] OTHER -> JsonFail

jsonValueFrom(s, i) == jsonValueAt(s, i, charAt(s, i))

jsonValue(s, i0) == jsonValueFrom(s, skipWS(s, i0))

jsonWhole(s, r) ==
  IF r.ok /\ skipWS(s, r.i) > Len(s) THEN [ok |-> TRUE, v |-> r.v]
  ELSE [ok |-> FALSE, v |-> Undefined]

\* JSON.parse(s): [ok |-> FALSE] stands for the SyntaxError it throws
JSONparse(s) == jsonWhole(s, jsonValue(s, 1))

(***************************************************************************)
(* lib/types.ts: the two sector-pattern labels.                            *)
(***************************************************************************)
\* "shui xia la shui shang"
PatternA == <<"u6C34", "u4E0B", "u62C9", "u6C34", "u4E0A">>
\* "bo dong san jiao shou zhai"
PatternB == <<"u6CE2", "u52A8", "u4E09", "u89D2", "u6536", "u7A84">>

(***************************************************************************)
(* lib/scoring.ts                                                          *)
(***************************************************************************)
\* a reason string; the turnover reasons carry the turnover they print
Reason(rule, n) == [rule |-> rule, turnover |-> n]

NoTurnover == Null

\* patternRule with 50 points for pattern A
patternRuleWorth50(sector_pattern) ==
  IF sector_pattern = JStr(PatternA)
    THEN [delta |-> 50, reasons |-> <<Reason("pattern A +30", NoTurnover)>>]
  ELSE IF sector_pattern = JStr(PatternB)
    THEN [delta |-> 20, reasons |-> <<Reason("pattern B +20", NoTurnover)>>]
  ELSE IF sector_pattern = Null \/ sector_pattern = Undefined
    THEN [delta |-> 0, reasons |-> <<Reason("pattern missing", NoTurnover)>>]
  ELSE [delta |-> 0, reasons |-> <<>>]

\* lines 11-19: the sector_pattern rule
patternRule(sector_pattern) ==
  IF sector_pattern = JStr(PatternA)
    THEN [delta |-> 30, reasons |-> <<Reason("pattern A +30", NoTurnover)>>]
  ELSE IF sector_pattern = JStr(PatternB)
    THEN [delta |-> 20, reasons |-> <<Reason("pattern B +20", NoTurnover)>>]
  ELSE IF sector_pattern = Null \/ sector_pattern = Undefined
    THEN [delta |-> 0, reasons |-> <<Reason("pattern missing", NoTurnover)>>]
  ELSE [delta |-> 0, reasons |-> <<>>]

\* turnoverRule with "> 8" written for ">= 8"
turnoverRuleStrict8(turnover) ==
  IF turnover # Null /\ turnover # Undefined
    THEN IF NumGE(turnover.v, 8) /\ turnover.v # MkNum(8, 0)
           THEN [delta |-> 30, reasons |-> <<Reason("turnover >= 8% +30", turnover)>>]
         ELSE IF NumGE(turnover.v, 5)
           THEN [delta |-> 20, reasons |-> <<Reason("turnover >= 5% +20", turnover)>>]
         ELSE IF NumGE(turnover.v, 3)
           THEN [delta |-> 10, reasons |-> <<Reason("turnover >= 3% +10", turnover)>>]
         ELSE [delta |-> 0, reasons |-> <<>>]
    ELSE [delta |-> 0, reasons |-> <<Reason("turnover missing", NoTurnover)>>]

\* turnoverRule with three independent ifs in place of the else-if chain
turnoverRuleStacked(turnover) ==
  IF turnover # Null /\ turnover # Undefined
    THEN LET r8 == IF NumGE(turnover.v, 8)
                     THEN <<Reason("turnover >= 8% +30", turnover)>> ELSE <<>>
             r5 == IF NumGE(turnover.v, 5)
                     THEN <<Reason("turnover >= 5% +20", turnover)>> ELSE <<>>
             r3 == IF NumGE(turnover.v, 3)
                     THEN <<Reason("turnover >= 3% +10", turnover)>> ELSE <<>>
         IN [delta |-> 30 * Len(r8) + 20 * Len(r5) + 10 * Len(r3),
             reasons |-> r8 \o r5 \o r3]
    ELSE [delta |-> 0, reasons |-> <<Reason("turnover missing", NoTurnover)>>]

\* lines 22-35: the turnover rule, an if / else-if chain
turnoverRule(turnover) ==
  IF turnover # Null /\ turnover # Undefined
    THEN IF NumGE(turnover.v, 8)
           THEN [delta |-> 30, reasons |-> <<Reason("turnover >= 8% +30", turnover)>>]
         ELSE IF NumGE(turnover.v, 5)
           THEN [delta |-> 20, reasons |-> <<Reason("turnover >= 5% +20", turnover)>>]
         ELSE IF NumGE(turnover.v, 3)
           THEN [delta |-> 10, reasons |-> <<Reason("turnover >= 3% +10", turnover)>>]
         ELSE [delta |-> 0, reasons |-> <<>>]
    ELSE [delta |-> 0, reasons |-> <<Reason("turnover missing", NoTurnover)>>]

Min(a, b) == IF a <= b THEN a ELSE b
Max(a, b) == IF a >= b THEN a ELSE b

\* line 38
clamp(score) == Max(0, Min(100, score))

\* withFallback with the fallback of lines 40-42 left out
withoutFallback(reasons) == reasons

\* lines 40-42
withFallback(reasons) ==
  IF Len(reasons) = 0 THEN <<Reason("insufficient information", NoTurnover)>>
  ELSE reasons

\* the sum before the clamp of line 38
rawScore(record) ==
  patternRule(record.sector_pattern).delta + turnoverRule(record.turnover).delta

\* calculateScore with a 10 point penalty for a missing turnover added after
\* the clamp
calculateScorePenaltyAfterClamp(record) ==
  LET p == patternRule(record.sector_pattern)
      u == turnoverRule(record.turnover)
  IN [score |-> clamp(p.delta + u.delta)
                  - (IF record.turnover \in {Null, Undefined} THEN 10 ELSE 0),
      reason |-> withFallback(p.reasons \o u.reasons)]

calculateScore(record) ==
  LET p == patternRule(record.sector_pattern)
      u == turnoverRule(record.turnover)
  IN [score |-> clamp(p.delta + u.delta),
      reason |-> withFallback(p.reasons \o u.reasons)]

\* scoreLocals with the reasons the call before left behind
scoreLocalsKept(previous) == [score |-> 0, reasons |-> previous]

\* lines 7-8: the locals score and reasons at the entry of a call, whatever
\* reasons the call before returned
scoreLocals(previous) == [score |-> 0, reasons |-> <<>>]

\* lines 10-44 from the locals of the entry on
scoreFromLocals(record, locals) ==
  [score |-> clamp(locals.score + rawScore(record)),
   reason |-> withFallback(locals.reasons \o patternRule(record.sector_pattern).reasons
                             \o turnoverRule(record.turnover).reasons)]

\* lines 3-45: a call of calculateScore after a call that returned the
\* reasons previous
calculateScoreAfter(record, previous) == scoreFromLocals(record, scoreLocals(previous))

(***************************************************************************)
(* The record parser (imports ./types and ./scoring; parseSignalText).     *)
(***************************************************************************)
kDate == <<"d", "a", "t", "e">>
kCode == <<"c", "o", "d", "e">>
kName == <<"n", "a", "m", "e">>
kSector == <<"s", "e", "c", "t", "o", "r">>
kSectorPattern == <<"s", "e", "c", "t", "o", "r", "_", "p", "a", "t", "t", "e", "r", "n">>
kTurnover == <<"t", "u", "r", "n", "o", "v", "e", "r">>
kTriggerTime == <<"t", "r", "i", "g", "g", "e", "r", "_", "t", "i", "m", "e">>
kChg == <<"c", "h", "g">>
kAmount == <<"a", "m", "o", "u", "n", "t">>
kDebtRatio == <<"d", "e", "b", "t", "_", "r", "a", "t", "i", "o">>
kScore == <<"s", "c", "o", "r", "e">>
kReason == <<"r", "e", "a", "s", "o", "n">>

\* lines 124-155: the header dictionary, <<label, key>>
headerMap ==
  {<<<<"u65E5", "u671F">>, kDate>>,
   <<<<"d", "a", "t", "e">>, kDate>>,
   <<<<"u4EE3", "u7801">>, kCode>>,
   <<<<"u80A1", "u7968", "u4EE3", "u7801">>, kCode>>,
   <<<<"c", "o", "d", "e">>, kCode>>,
   <<<<"u540D", "u79F0">>, kName>>,
   <<<<"u80A1", "u7968">>, kName>>,
   <<<<"u7B80", "u79F0">>, kName>>,
   <<<<"n", "a", "m", "e">>, kName>>,
   <<<<"u80A1", "u7968", "u7B80", "u79F0">>, kName>>,
   <<<<"u677F", "u5757">>, kSector>>,
   <<<<"u6982", "u5FF5">>, kSector>>,
   <<<<"s", "e", "c", "t", "o", "r">>, kSector>>,
   <<<<"u6C34", "u4E0B", "u62C9", "u6C34", "u4E0A">>, kSectorPattern>>,
   <<<<"u6CE2", "u52A8", "u4E09", "u89D2", "u6536", "u7A84">>, kSectorPattern>>,
   <<<<"u677F", "u5757", "u5206", "u65F6">>, kSectorPattern>>,
   <<<<"u4FE1", "u53F7">>, kSectorPattern>>,
   <<<<"u6362", "u624B", "u7387">>, kTurnover>>,
   <<<<"u6362", "u624B">>, kTurnover>>,
   <<<<"t", "u", "r", "n", "o", "v", "e", "r">>, kTurnover>>,
   <<<<"u89E6", "u53D1", "u65F6", "u95F4">>, kTriggerTime>>,
   <<<<"u65F6", "u95F4">>, kTriggerTime>>,
   <<<<"t", "r", "i", "g", "g", "e", "r", "_", "t", "i", "m", "e">>, kTriggerTime>>,
   <<<<"u6DA8", "u8DCC", "u5E45">>, kChg>>,
   <<<<"u6DA8", "u5E45">>, kChg>>,
   <<<<"c", "h", "g">>, kChg>>,
   <<<<"u6210", "u4EA4", "u989D">>, kAmount>>,
   <<<<"a", "m", "o", "u", "n", "t">>, kAmount>>,
   <<<<"u8D44", "u4EA7", "u8D1F", "u503A", "u7387">>, kDebtRatio>>,
   <<<<"d", "e", "b", "t", "_", "r", "a", "t", "i", "o">>, kDebtRatio>>}

\* lines 122-157: the key of a header or label, Null for one the dictionary
\* does not hold
headerKey(entries) ==
  IF entries = {} THEN Null ELSE JStr((CHOOSE e \in entries : TRUE)[2])

headerEntries(h) == {e \in headerMap : e[1] = h}

mapHeaderToKey(header) == headerKey(headerEntries(trim(toLowerCase(header))))

\* parseSectorPattern without the legacy values of line 166
parseSectorPatternNoLegacy(val) ==
  LET s == trim(toString(orElse(val, JStr(<<>>))))
  IN IF s = PatternA THEN JStr(PatternA)
     ELSE IF s = PatternB THEN JStr(PatternB)
     ELSE Null

\* lines 159-168
parseSectorPattern(val) ==
  LET s == trim(toString(orElse(val, JStr(<<>>))))
  IN IF s = PatternA THEN JStr(PatternA)
     ELSE IF s = PatternB THEN JStr(PatternB)
     ELSE IF s \in {<<"t", "r", "u", "e">>, <<"u662F">>, <<"1">>, <<"y", "e", "s">>}
       THEN JStr(PatternA)
     ELSE Null

\* normalizeCode without its padStart
normalizeCodeUnpadded(code) ==
  IF ~truthy(code) THEN <<>>
  ELSE SelectSeq(toString(code), IsDigit)

\* normalizeCode cutting the digits after the sixth
normalizeCodeTruncating(code) ==
  IF ~truthy(code) THEN <<>>
  ELSE SubSeq(padStart(SelectSeq(toString(code), IsDigit), 6), 1, 6)

\* lines 217-220
normalizeCode(code) ==
  IF ~truthy(code) THEN <<>>
  ELSE padStart(SelectSeq(toString(code), IsDigit), 6)

\* n || null with NaN taken for truthy
numberOrNullKeepingNaN(n) == IF ~n.nan /\ n.m = 0 THEN Null ELSE JNum(n)

\* n || null for a number n
numberOrNull(n) == IF n.nan \/ n.m = 0 THEN Null ELSE JNum(n)

\* lines 190-192 and 211: parseFloat(String(v || "").replace("%", "")) || null
percentOrNull(v) ==
  numberOrNull(parseFloat(replaceFirst(toString(orElse(v, JStr(<<>>))), "%")))

\* lines 193-194: parseFloat(String(v || "").replace(/[yi wan ,]/g, "")) || null
amountOrNull(v) ==
  numberOrNull(parseFloat(removeAll(toString(orElse(v, JStr(<<>>))),
                                    {"u4EBF", "u4E07", ","})))

\* lines 179-187: the sector list, a sequence of values
normalizeSector(v) ==
  IF v.t = "str"
    THEN MapSeq(JStr, SelectSeq(MapSeq(trim, split(v.v, {",", FullComma, IdeoComma})),
                                LAMBDA x : Len(x) > 0))
  ELSE IF v.t = "arr" THEN v.v
  ELSE <<>>

\* scoreOf keeping a numeric score the raw record brings along
scoreOfTrustingRaw(raw, sectorPattern, turnover) ==
  LET computed == calculateScore([sector_pattern |-> sectorPattern, turnover |-> turnover])
  IN IF getProp(raw, kScore).t = "num" /\ ~getProp(raw, kScore).v.nan
       THEN [score |-> getProp(raw, kScore).v.m, reason |-> computed.reason]
       ELSE computed

\* lines 195-200: the score and reasons of a record
scoreOf(raw, sectorPattern, turnover) ==
  calculateScore([sector_pattern |-> sectorPattern, turnover |-> turnover])

Threw == [threw |-> TRUE, v |-> Undefined]
Returned(v) == [threw |-> FALSE, v |-> v]

\* lines 170-215.  Reading a property of null throws a TypeError, and so does
\* calling trim on a truthy name that is no string.
normalizedRecord(raw, dflt, now, nameV, sectorPattern, turnover, sc) ==
  IF nameV.t # "str" THEN Threw
  ELSE Returned(
    [date |-> orElse(orElse(getProp(raw, kDate), dflt), JStr(now)),
     code |-> normalizeCode(getProp(raw, kCode)),
     name |-> trim(nameV.v),
     sector |-> normalizeSector(getProp(raw, kSector)),
     sector_pattern |-> sectorPattern,
     turnover |-> turnover,
     chg |-> percentOrNull(getProp(raw, kChg)),
     amount |-> amountOrNull(getProp(raw, kAmount)),
     debt_ratio |-> percentOrNull(getProp(raw, kDebtRatio)),
     score |-> sc.score,
     reason |-> sc.reason])

normalizeScored(raw, dflt, now, sectorPattern, turnover) ==
  normalizedRecord(raw, dflt, now, orElse(getProp(raw, kName), JStr(<<>>)),
                   sectorPattern, turnover, scoreOf(raw, sectorPattern, turnover))

normalizeRecord(raw, dflt, now) ==
  IF raw.t \in {"null", "undefined"} THEN Threw
  ELSE normalizeScored(raw, dflt, now,
                       parseSectorPattern(getProp(raw, kSectorPattern)),
                       percentOrNull(getProp(raw, kTurnover)))

\* find(test): the first element satisfying test as a string value, else undefined
partAt(parts, k) == IF k = 0 THEN Undefined ELSE JStr(parts[k])

findPart(test(_), parts) == partAt(parts, FindIndex(test, parts))

\* lines 222-224: /^\d{6}$/
extractCode(parts) ==
  findPart(LAMBDA p : Len(trim(p)) = 6 /\ \A i \in 1..6 : IsDigit(trim(p)[i]), parts)

\* lines 226-233
extractName(parts) ==
  findPart(LAMBDA p : /\ Len(trim(p)) > 0
                      /\ (trim(p)[1] \in CJK \/ IsLetter(trim(p)[1]))
                      /\ ~hasChar(p, {"%", FullPercent})
                      /\ Len(p) <= 8,
           parts)

\* lines 235-242
extractSector(parts) ==
  findPart(LAMBDA p : \/ hasChar(p, {IdeoComma})
                      \/ hasChar(p, {","})
                      \/ (Len(p) > 4 /\ hasChar(p, CJK) /\ ~hasChar(p, {"%", FullPercent})),
           parts)

\* lines 244-251 with the hint /%/
numberAt(parts, k) ==
  IF k = 0 THEN Undefined
  ELSE JNum(parseFloat(removeAll(parts[k], {"%", FullPercent})))

extractNumber(parts) ==
  numberAt(parts,
    FindIndex(LAMBDA p : /\ hasChar(p, {"%"})
                         /\ ~parseFloat(removeAll(p, {"%", FullPercent})).nan,
              parts))

\* /[+-]?\d+\.\d+%?$/: digits, ".", digits and an optional "%" end the string
endsWithDecimal(s) ==
  LET t == IF Len(s) > 0 /\ s[Len(s)] = "%" THEN SubSeq(s, 1, Len(s) - 1) ELSE s
      \* the digits that end t, then a "." and a digit before them
      RECURSIVE tailDigits(_)
      tailDigits(i) == IF i >= 1 /\ IsDigit(t[i]) THEN 1 + tailDigits(i - 1) ELSE 0
      nFrac == tailDigits(Len(t))
      dot == Len(t) - nFrac
  IN nFrac >= 1 /\ dot >= 2 /\ t[dot] = "." /\ IsDigit(t[dot - 1])

\* lines 253-260
extractChg(parts) ==
  numberAt(parts, FindIndex(LAMBDA p : endsWithDecimal(trim(p)), parts))

\* lines 35-39
isHeaderLine(firstLine) ==
  \/ includes(firstLine, <<"u4EE3", "u7801">>)
  \/ includes(firstLine, kCode)
  \/ includes(firstLine, <<"u80A1", "u7968">>)
  \/ includes(firstLine, <<"u540D", "u79F0">>)

\* lines 45-49
detectSeparator(firstLine) ==
  IF hasChar(firstLine, {"\t"}) THEN "\t"
  ELSE IF hasChar(firstLine, {"|"}) THEN "|"
  ELSE ","

\* line 30 and line 99: split("\n").filter((l) => l.trim())
nonBlankLines(s) == SelectSeq(split(s, {"\n"}), LAMBDA l : Len(trim(l)) > 0)

\* zipHeaders giving the i-th header the i-th cell from the end
zipHeadersReversed(headers, parts, i, raw) ==
  LET n == Min(Len(headers), Len(parts))
      pairs == [k \in 1..n |-> <<mapHeaderToKey(headers[k]), JStr(parts[n + 1 - k])>>]
      known == SelectSeq(pairs, LAMBDA pr : truthy(pr[1]))
  IN JObj(raw.v \o [k \in 1..Len(known) |-> <<known[k][1].v, known[k][2]>>])

\* lines 74-80: the raw record of a data row under the headers
RECURSIVE zipHeaders(_, _, _, _)
zipHeader(raw, key, part) == IF truthy(key) THEN setProp(raw, key.v, JStr(part)) ELSE raw

zipHeaders(headers, parts, i, raw) ==
  IF i > Len(headers) THEN raw
  ELSE zipHeaders(headers, parts, i + 1,
         IF i <= Len(parts) THEN zipHeader(raw, mapHeaderToKey(headers[i]), parts[i])
         ELSE raw)

\* lines 81-87: the raw record of a data row without headers
positionalRaw(parts) ==
  JObj(<< <<kCode, extractCode(parts)>>,
          <<kName, extractName(parts)>>,
          <<kSector, extractSector(parts)>>,
          <<kTurnover, extractNumber(parts)>>,
          <<kChg, extractChg(parts)>>>>)

\* lines 61-67: a label line, which the table path leaves to the block path
isLabelLine(trimmedLine) ==
  hasChar(trimmedLine, {":"}) /\ ~hasChar(trimmedLine, {","}) /\ ~hasChar(trimmedLine, {"\t"})

\* lines 90 and 112: record.code || record.name
hasIdentity(record) == Len(record.code) > 0 \/ Len(record.name) > 0

\* lines 57-93: the outcome of one data line: [threw, keep, v]
rowOutcome(rec) ==
  IF rec.threw THEN [threw |-> TRUE, keep |-> FALSE, v |-> Undefined]
  ELSE [threw |-> FALSE, keep |-> hasIdentity(rec.v), v |-> rec.v]

rowOfParts(trimmedLine, parts, headers, dflt, now) ==
  IF Len(trimmedLine) = 0 \/ isLabelLine(trimmedLine) \/ Len(parts) < 2
    THEN [threw |-> FALSE, keep |-> FALSE, v |-> Undefined]
  ELSE rowOutcome(normalizeRecord(IF Len(headers) > 0
                                    THEN zipHeaders(headers, parts, 1, JObj(<<>>))
                                    ELSE positionalRaw(parts),
                                  dflt, now))

rowOfLine(trimmedLine, headers, separator, dflt, now) ==
  rowOfParts(trimmedLine, MapSeq(trim, split(trimmedLine, {separator})), headers, dflt, now)

tableRow(line, headers, separator, dflt, now) ==
  rowOfLine(trim(line), headers, separator, dflt, now)

\* the records kept of a sequence of row or block outcomes
keptRecords(outcomes) ==
  MapSeq(LAMBDA o : o.v, SelectSeq(outcomes, LAMBDA o : o.keep))

anyThrew(outcomes) == \E i \in 1..Len(outcomes) : outcomes[i].threw

\* line 97: split(/\n\s*\n/)
RECURSIVE splitBlocksAcc(_, _, _)
splitBlocksAcc(s, from, acc) ==
  LET \* the end of the separator that starts at the newline s[i], 0 for none
      sepEnd(i) ==
        LET ends == {j \in (i + 1)..Len(s) :
                       s[j] = "\n" /\ \A l \in (i + 1)..j : IsSpace(s[l])}
        IN IF ends = {} THEN 0 ELSE CHOOSE j \in ends : \A l \in ends : l <= j
      starts == {i \in from..Len(s) : s[i] = "\n" /\ sepEnd(i) # 0}
  IN IF starts = {} THEN Append(acc, SubSeq(s, from, Len(s)))
     ELSE LET i == CHOOSE k \in starts : \A l \in starts : k <= l
          IN splitBlocksAcc(s, sepEnd(i) + 1, Append(acc, SubSeq(s, from, i - 1)))

splitBlocks(s) == splitBlocksAcc(s, 1, <<>>)

\* line 103: /^(.+?)[:]\s*(.+)$/ with the ASCII and the fullwidth colon;
\* [ok, label, value].  "." matches no line terminator.
matchLabelLine(bline) ==
  LET noBreak(x) == ~hasChar(x, {"\n", "\r"})
      \* the value captured after the colon at i: white space is skipped as
      \* far as a non-empty rest remains
      rest(i) == SubSeq(bline, i + 1, Len(bline))
      skips(i) == {k \in 0..(Len(rest(i)) - 1) :
                     /\ \A l \in 1..k : IsSpace(rest(i)[l])
                     /\ noBreak(SubSeq(rest(i), k + 1, Len(rest(i))))}
      colons == {i \in 2..Len(bline) :
                   /\ bline[i] \in {":", FullColon}
                   /\ noBreak(SubSeq(bline, 1, i - 1))
                   /\ skips(i) # {}}
  IN IF colons = {} THEN [ok |-> FALSE, label |-> <<>>, value |-> <<>>]
     ELSE LET i == CHOOSE k \in colons : \A l \in colons : k <= l
              k == CHOOSE a \in skips(i) : \A b \in skips(i) : b <= a
          IN [ok |-> TRUE,
              label |-> SubSeq(bline, 1, i - 1),
              value |-> SubSeq(rest(i), k + 1, Len(rest(i)))]

\* lines 102-108: the raw record of a block's lines
RECURSIVE blockRaw(_, _, _)
labelled(raw, key, value) ==
  IF truthy(key) THEN setProp(raw, key.v, JStr(trim(value))) ELSE raw

labelOf(raw, m) ==
  IF m.ok THEN labelled(raw, mapHeaderToKey(trim(m.label)), m.value) ELSE raw

blockRaw(blockLines, i, raw) ==
  IF i > Len(blockLines) THEN raw
  ELSE blockRaw(blockLines, i + 1, labelOf(raw, matchLabelLine(blockLines[i])))

\* lines 98-116: the outcome of one block
blockOfRaw(raw, dflt, now) ==
  IF Len(raw.v) = 0 THEN [threw |-> FALSE, keep |-> FALSE, v |-> Undefined]
  ELSE rowOutcome(normalizeRecord(raw, dflt, now))

blockRecord(block, dflt, now) ==
  blockOfRaw(blockRaw(nonBlankLines(block), 1, JObj(<<>>)), dflt, now)

\* lines 17-27: the JSON path; ok is false when JSON.parse or normalizeRecord
\* threw inside the try block
jsonRecords(recs) ==
  IF anyThrew(recs) THEN [ok |-> FALSE, records |-> <<>>]
  ELSE [ok |-> TRUE, records |-> MapSeq(LAMBDA r : r.v, recs)]

jsonParsed(parsed, dflt, now) ==
  IF parsed.ok
    THEN jsonRecords(MapSeq(LAMBDA item : normalizeRecord(item, dflt, now), parsed.v.v))
    ELSE [ok |-> FALSE, records |-> <<>>]

jsonPath(trimmed, dflt, now) ==
  IF startsWith(trimmed, <<"[">>) THEN jsonParsed(JSONparse(trimmed), dflt, now)
  ELSE [ok |-> FALSE, records |-> <<>>]

\* lines 29-93: the table path
tableRows(dataLines, headers, separator, dflt, now) ==
  MapSeq(LAMBDA line : tableRow(line, headers, separator, dflt, now), dataLines)

tableOfLines(lines, isHeader, separator, dflt, now) ==
  tableRows(IF isHeader THEN Tail(lines) ELSE lines,
            IF isHeader
              THEN MapSeq(LAMBDA h : toLowerCase(trim(h)), split(lines[1], {separator}))
              ELSE <<>>,
            separator, dflt, now)

tableOf(lines, firstLine, dflt, now) ==
  tableOfLines(lines, isHeaderLine(firstLine), detectSeparator(firstLine), dflt, now)

tablePath(lines, dflt, now) == tableOf(lines, toLowerCase(lines[1]), dflt, now)

\* lines 95-117: the block path
blockPath(trimmed, dflt, now) ==
  MapSeq(LAMBDA block : blockRecord(block, dflt, now), splitBlocks(trimmed))

\* fallbackPaths running the block path after a table path that gave records
fallbackPathsBoth(tableRecords, blocks) ==
  IF anyThrew(tableRecords) \/ anyThrew(blocks) THEN Threw
  ELSE Returned(keptRecords(tableRecords) \o keptRecords(blocks))

\* lines 11-120.  Calling trim on a text that is no string throws a TypeError.
fallbackPaths(tableRecords, blocks) ==
  IF anyThrew(tableRecords) THEN Threw
  ELSE IF Len(keptRecords(tableRecords)) > 0 THEN Returned(keptRecords(tableRecords))
  ELSE IF anyThrew(blocks) THEN Threw
  ELSE Returned(keptRecords(blocks))

parseLines(trimmed, lines, dflt, now) ==
  IF Len(lines) = 0 THEN Returned(<<>>)
  ELSE fallbackPaths(tablePath(lines, dflt, now), blockPath(trimmed, dflt, now))

parseTrimmed(trimmed, json, dflt, now) ==
  IF json.ok THEN Returned(json.records)
  ELSE parseLines(trimmed, nonBlankLines(trimmed), dflt, now)

parseSignalText(text, dflt, now) ==
  IF text.t # "str" THEN Threw
  ELSE parseTrimmed(trim(text.v), jsonPath(trim(text.v), dflt, now), dflt, now)

(***************************************************************************)
(* The entry dialog before it is first opened: no form, nothing in flight, *)
(* an empty table.                                                         *)
(***************************************************************************)
FormClosed ==
  /\ inputOpen = FALSE
  /\ mount = 0
  /\ date = <<>>
  /\ rows = <<>>
  /\ error = Null
  /\ loadingCodes = {}
  /\ codeTimeouts = {}
  /\ lookups = <<>>
  /\ edits = 0
  /\ posts = <<>>
  /\ replies = <<>>
  /\ stored = <<>>
  /\ alerted = FALSE

(***************************************************************************)
(* The other pages and routes before anything has happened to them.        *)
(***************************************************************************)
ShotsIdle ==
  /\ shots = <<>>
  /\ uploads = <<>>

\* a page that is not mounted has no state
PagesIdle ==
  /\ ShotsIdle
  /\ stocks = Null
  /\ panel = Null
  /\ chat = Null

(***************************************************************************)
(* The environment of the scoring engine: one direct call of               *)
(* calculateScore with any sector_pattern and any turnover.                *)
(***************************************************************************)
Pending == [t |-> "pending"]

\* a string that is neither label: "x"
OtherPattern == <<"x">>

ScorePatterns ==
  {JStr(PatternA), JStr(PatternB), Null, Undefined, JStr(OtherPattern)}

ScoreTurnovers ==
  {Null, Undefined, JNum(NaN)}
    \cup {JNum(MkNum(k, 1)) : k \in (0 - MaxTenths)..MaxTenths}

ScoreArgs == [sector_pattern : ScorePatterns, turnover : ScoreTurnovers]

NoDate == Undefined

ScoreInit ==
  /\ op = "calculateScore"
  /\ arg \in ScoreArgs
  /\ defaultDate = NoDate
  /\ today = <<>>
  /\ result = Pending
  /\ FormClosed
  /\ PagesIdle

CallCalculateScore ==
  /\ op = "calculateScore"
  /\ result = Pending
  /\ result' = [t |-> "returned", v |-> calculateScore(arg)]
  /\ UNCHANGED <<op, arg, defaultDate, today, formVars, pageVars>>

ScoreNext == CallCalculateScore

Spec == ScoreInit /\ [][ScoreNext]_vars

(***************************************************************************)
(* Properties of calculateScore (checked under Spec).                      *)
(***************************************************************************)
ScoreReturned == op = "calculateScore" /\ result.t = "returned"

IsNone(v) == v = Null \/ v = Undefined

NumLT(n, k) == ~n.nan /\ n.m < k * Pow10(n.s)

\* the claimed pattern bonus: 30 for pattern A, 20 for pattern B, 0 for none
ClaimedPatternDelta(sp) ==
  CASE sp = JStr(PatternA) -> 30
    [] sp = JStr(PatternB) -> 20
    [] OTHER -> 0

\* the claimed turnover bonus, tier by tier
ClaimedTurnoverDelta(u) ==
  CASE IsNone(u) -> 0
    [] ~IsNone(u) /\ NumGE(u.v, 8) -> 30
    [] ~IsNone(u) /\ NumGE(u.v, 5) /\ NumLT(u.v, 8) -> 20
    [] ~IsNone(u) /\ NumGE(u.v, 3) /\ NumLT(u.v, 5) -> 10
    [] ~IsNone(u) /\ NumLT(u.v, 3) -> 0

TurnoverRules ==
  {"turnover >= 8% +30", "turnover >= 5% +20", "turnover >= 3% +10",
   "turnover missing"}

TurnoverReasonCount(reason) ==
  Cardinality({i \in 1..Len(reason) : reason[i].rule \in TurnoverRules})

\* C1: for every sector_pattern and every turnover (number, NaN, null or
\* undefined) the returned score is an integer between 0 and 100.
C1_ScoreRange == ScoreReturned => result.v.score \in 0..100

C1_Witness ==
  /\ ScoreReturned
  /\ arg.sector_pattern = JStr(PatternA)
  /\ arg.turnover = JNum(MkNum(95, 1))
  /\ result.v.score = 60

\* C2: the score is the pattern bonus (30 / 20 / 0) plus the turnover bonus
\* (0 for null, 30 for >= 8, 20 for [5, 8), 10 for [3, 5), 0 below 3).
C2_ScoreIsSum ==
  (/\ ScoreReturned
   /\ arg.sector_pattern \in {JStr(PatternA), JStr(PatternB), Null, Undefined}
   /\ arg.turnover # JNum(NaN))
    => result.v.score
         = ClaimedPatternDelta(arg.sector_pattern) + ClaimedTurnoverDelta(arg.turnover)

C2_Witness ==
  /\ ScoreReturned
  /\ arg.sector_pattern = JStr(PatternB)
  /\ arg.turnover = JNum(MkNum(8, 0))
  /\ result.v.score = 50

\* C3: the turnover tiers are exclusive: the turnover bonus is one of 0, 10,
\* 20, 30, at most one turnover reason is appended, and pattern none with
\* turnover 8 scores 30.
C3_TierExclusive ==
  ScoreReturned =>
    /\ result.v.score - ClaimedPatternDelta(arg.sector_pattern) \in {0, 10, 20, 30}
    /\ TurnoverReasonCount(result.v.reason) <= 1
    /\ (IsNone(arg.sector_pattern) /\ arg.turnover = JNum(MkNum(8, 0)))
         => result.v.score = 30

C3_Witness ==
  /\ ScoreReturned
  /\ arg.sector_pattern = Null
  /\ arg.turnover = JNum(MkNum(8, 0))
  /\ result.v.score = 30
  /\ TurnoverReasonCount(result.v.reason) = 1

\* C4: the returned reason list is never empty; when no rule appended a
\* reason it holds exactly the fallback reason.
C4_ReasonNonEmpty ==
  ScoreReturned =>
    /\ Len(result.v.reason) >= 1
    /\ (patternRule(arg.sector_pattern).reasons \o turnoverRule(arg.turnover).reasons = <<>>)
         => result.v.reason = <<Reason("insufficient information", NoTurnover)>>

C4_Witness ==
  /\ ScoreReturned
  /\ arg.sector_pattern = JStr(OtherPattern)
  /\ arg.turnover = JNum(MkNum(1, 0))
  /\ result.v.reason = <<Reason("insufficient information", NoTurnover)>>

(***************************************************************************)
(* The environment of the parser: one call of parseSignalText with a       *)
(* pasted text (a JSON array, a delimited table, label blocks, text of no  *)
(* format) or with a value that is no string.                              *)
(***************************************************************************)
\* elements of a pasted JSON array: at most MaxJsonElems
MaxJsonElems == 2
\* data rows of a pasted table: at most MaxRows
MaxRows == 2
\* lines of pasted label blocks: at most MaxLabelLines
MaxLabelLines == 2

RECURSIVE joinWith(_, _)
joinWith(strs, sep) ==
  IF Len(strs) = 0 THEN <<>>
  ELSE IF Len(strs) = 1 THEN strs[1]
  ELSE strs[1] \o sep \o joinWith(Tail(strs), sep)

SeqsUpTo(S, lo, hi) == UNION {[1..k -> S] : k \in lo..hi}

\* {"code":"600519","name":"X","sector":"\u767d\u9152","sector_pattern":"\u6c34\u4e0b\u62c9\u6c34\u4e0a","turnover":3.2}
ElemScenarioA ==
  <<"{", "\"", "c", "o", "d", "e", "\"", ":", "\"", "6", "0", "0", "5", "1", "9", "\"", ",",
    "\"", "n", "a", "m", "e", "\"", ":", "\"", "X", "\"", ",", "\"", "s", "e", "c", "t", "o",
    "r", "\"", ":", "\"", "u767D", "u9152", "\"", ",", "\"", "s", "e", "c", "t", "o", "r", "_",
    "p", "a", "t", "t", "e", "r", "n", "\"", ":", "\"", "u6C34", "u4E0B", "u62C9", "u6C34",
    "u4E0A", "\"", ",", "\"", "t", "u", "r", "n", "o", "v", "e", "r", "\"", ":", "3", ".", "2",
    "}">>

\* null
ElemNull ==
  <<"n", "u", "l", "l">>

\* {"name":123}
ElemNumberName ==
  <<"{", "\"", "n", "a", "m", "e", "\"", ":", "1", "2", "3", "}">>

\* {}
ElemEmpty ==
  <<"{", "}">>

\* {"code":"1","name":" Y ","score":99,"reason":["x"],"turnover":"8%","sector_pattern":true}
ElemWithScore ==
  <<"{", "\"", "c", "o", "d", "e", "\"", ":", "\"", "1", "\"", ",", "\"", "n", "a", "m", "e",
    "\"", ":", "\"", " ", "Y", " ", "\"", ",", "\"", "s", "c", "o", "r", "e", "\"", ":", "9",
    "9", ",", "\"", "r", "e", "a", "s", "o", "n", "\"", ":", "[", "\"", "x", "\"", "]", ",",
    "\"", "t", "u", "r", "n", "o", "v", "e", "r", "\"", ":", "\"", "8", "%", "\"", ",", "\"",
    "s", "e", "c", "t", "o", "r", "_", "p", "a", "t", "t", "e", "r", "n", "\"", ":", "t", "r",
    "u", "e", "}">>

\* {"name":"Z","sector":["a","b"],"sector_pattern":" yes ","turnover":0}
ElemPadded ==
  <<"{", "\"", "n", "a", "m", "e", "\"", ":", "\"", "Z", "\"", ",", "\"", "s", "e", "c", "t",
    "o", "r", "\"", ":", "[", "\"", "a", "\"", ",", "\"", "b", "\"", "]", ",", "\"", "s", "e",
    "c", "t", "o", "r", "_", "p", "a", "t", "t", "e", "r", "n", "\"", ":", "\"", " ", "y", "e",
    "s", " ", "\"", ",", "\"", "t", "u", "r", "n", "o", "v", "e", "r", "\"", ":", "0", "}">>

\* {invalid
ElemInvalid ==
  <<"{", "i", "n", "v", "a", "l", "i", "d">>

\* {"code":2371,"sector_pattern":"\u6ce2\u52a8\u4e09\u89d2\u6536\u7a84","turnover":"6.5","score":100}
ElemNumberCode ==
  <<"{", "\"", "c", "o", "d", "e", "\"", ":", "2", "3", "7", "1", ",", "\"", "s", "e", "c",
    "t", "o", "r", "_", "p", "a", "t", "t", "e", "r", "n", "\"", ":", "\"", "u6CE2", "u52A8",
    "u4E09", "u89D2", "u6536", "u7A84", "\"", ",", "\"", "t", "u", "r", "n", "o", "v", "e",
    "r", "\"", ":", "\"", "6", ".", "5", "\"", ",", "\"", "s", "c", "o", "r", "e", "\"", ":",
    "1", "0", "0", "}">>

\* 7
ElemNumber ==
  <<"7">>

JsonElementTexts ==
  {ElemScenarioA,
   ElemNull,
   ElemNumberName,
   ElemEmpty,
   ElemWithScore,
   ElemPadded,
   ElemInvalid,
   ElemNumberCode,
   ElemNumber}

\* "[" e1 "," e2 ... "]" for up to MaxJsonElems elements
JsonTexts ==
  {<<"[">> \o joinWith(es, <<",">>) \o <<"]">> :
     es \in SeqsUpTo(JsonElementTexts, 0, MaxJsonElems)}

\* cells \u4ee3\u7801 | \u540d\u79f0 | \u6362\u624b\u7387
HeaderChinese ==
  << <<"u4EE3", "u7801">>,
     <<"u540D", "u79F0">>,
     <<"u6362", "u624B", "u7387">> >>

\* cells Code | name | score | sector_pattern | turnover
HeaderEnglish ==
  << <<"C", "o", "d", "e">>,
     <<"n", "a", "m", "e">>,
     <<"s", "c", "o", "r", "e">>,
     <<"s", "e", "c", "t", "o", "r", "_", "p", "a", "t", "t", "e", "r", "n">>,
     <<"t", "u", "r", "n", "o", "v", "e", "r">> >>

\* cells \u540d\u79f0 | \u4fe1\u53f7 | reason
HeaderNameSignal ==
  << <<"u540D", "u79F0">>,
     <<"u4FE1", "u53F7">>,
     <<"r", "e", "a", "s", "o", "n">> >>

\* cells 002371 | Y | 6.5
RowFull ==
  << <<"0", "0", "2", "3", "7", "1">>,
     <<"Y">>,
     <<"6", ".", "5">> >>

\* cells (empty) | (empty) | 9
RowNoIdentity ==
  << <<>>,
     <<>>,
     <<"9">> >>

\* cells 600519 | X | 8.1% | \u6c34\u4e0b\u62c9\u6c34\u4e0a | 99
RowLong ==
  << <<"6", "0", "0", "5", "1", "9">>,
     <<"X">>,
     <<"8", ".", "1", "%">>,
     <<"u6C34", "u4E0B", "u62C9", "u6C34", "u4E0A">>,
     <<"9", "9">> >>

\* cells 1
RowSingle ==
  << <<"1">> >>

\* cells \u767d\u9152 | \u662f | 3.2%
RowSector ==
  << <<"u767D", "u9152">>,
     <<"u662F">>,
     <<"3", ".", "2", "%">> >>

\* no header line
NoHeader == <<>>

TableHeaders == {NoHeader, HeaderChinese, HeaderEnglish, HeaderNameSignal}
TableRows == {RowFull, RowNoIdentity, RowLong, RowSingle, RowSector}
Separators == {",", "\t", "|"}

\* the header line (if any) and the data rows, cells joined by the separator
tableText(header, rws, sep) ==
  joinWith((IF header = NoHeader THEN <<>> ELSE <<joinWith(header, <<sep>>)>>)
             \o [i \in 1..Len(rws) |-> joinWith(rws[i], <<sep>>)],
           <<"\n">>)

TableTexts ==
  {tableText(h, rws, sep) :
     h \in TableHeaders, rws \in SeqsUpTo(TableRows, 1, MaxRows), sep \in Separators}

\* \u4ee3\u7801: 600519
LabelCode ==
  <<"u4EE3", "u7801", ":", " ", "6", "0", "0", "5", "1", "9">>

\* \u540d\u79f0\uff1a\u767d\u9152
LabelName ==
  <<"u540D", "u79F0", "uFF1A", "u767D", "u9152">>

\* \u6362\u624b\u7387: 8.1%
LabelTurnover ==
  <<"u6362", "u624B", "u7387", ":", " ", "8", ".", "1", "%">>

\* score: 99
LabelScore ==
  <<"s", "c", "o", "r", "e", ":", " ", "9", "9">>

\* \u4fe1\u53f7:\u662f
LabelSignal ==
  <<"u4FE1", "u53F7", ":", "u662F">>

\* x
LabelNone ==
  <<"x">>

LabelLines ==
  {LabelCode, LabelName, LabelTurnover, LabelScore, LabelSignal, LabelNone}

\* a line break, or a blank line that ends a block
LineBreaks == {<<"\n">>, <<"\n", " ", "\n">>}

RECURSIVE labelText(_, _)
labelText(lns, brks) ==
  IF Len(lns) = 1 THEN lns[1]
  ELSE lns[1] \o brks[1] \o labelText(Tail(lns), Tail(brks))

LabelTexts ==
  UNION {{labelText(lns, brks) : lns \in [1..k -> LabelLines], brks \in [1..(k - 1) -> LineBreaks]} :
           k \in 1..MaxLabelLines}

\* ]not json[
TextNotJson ==
  <<"]", "n", "o", "t", " ", "j", "s", "o", "n", "[">>

\* a blank, a line break, a blank
TextBlank ==
  <<" ", "\n", " ">>

OtherTexts == {<<>>, TextNotJson, TextBlank}

\* the table row 600519,X,8.1% and under it the label line of LabelName
TextRowAndLabel ==
  <<"6", "0", "0", "5", "1", "9", ",", "X", ",", "8", ".", "1", "%", "\n">> \o LabelName

\* texts with a table row and a label line
MixedTexts == {TextRowAndLabel}

\* the values that are no string
NonStrings == {JNum(MkNum(5, 0)), Null, Undefined}

ParserArgs ==
  {JStr(s) : s \in JsonTexts \cup TableTexts \cup LabelTexts \cup MixedTexts \cup OtherTexts}
    \cup NonStrings

\* "D": the caller's default date; "T": the current date
DefaultDate == <<"D">>
Today == <<"T">>

ParserInit ==
  /\ op = "parseSignalText"
  /\ arg \in ParserArgs
  /\ defaultDate \in {Undefined, JStr(DefaultDate)}
  /\ today = Today
  /\ result = Pending
  /\ FormClosed
  /\ PagesIdle

CallParseSignalText ==
  /\ op = "parseSignalText"
  /\ result = Pending
  /\ result' = LET r == parseSignalText(arg, defaultDate, today)
               IN IF r.threw THEN [t |-> "threw"] ELSE [t |-> "returned", v |-> r.v]
  /\ UNCHANGED <<op, arg, defaultDate, today, formVars, pageVars>>

ParserNext == CallParseSignalText

ParserSpec == ParserInit /\ [][ParserNext]_vars

(***************************************************************************)
(* Properties of parseSignalText (checked under ParserSpec).               *)
(***************************************************************************)
ParseReturned == op = "parseSignalText" /\ result.t = "returned"

ParseThrew == op = "parseSignalText" /\ result.t = "threw"

\* C5: every record parseSignalText returns has the score and the reasons
\* calculateScore gives for the record's own sector_pattern and turnover; a
\* score or reason of the raw input has no influence.
C5_ScoreRecomputed ==
  ParseReturned =>
    \A i \in 1..Len(result.v) :
      LET r == result.v[i]
          c == calculateScore([sector_pattern |-> r.sector_pattern, turnover |-> r.turnover])
      IN r.score = c.score /\ r.reason = c.reason

\* the JSON array [ElemWithScore], whose element carries "score":99 and a
\* reason list, is returned with the score 60 of pattern A and turnover 8
C5_Witness ==
  /\ ParseReturned
  /\ arg = JStr(<<"[">> \o ElemWithScore \o <<"]">>)
  /\ includes(arg.v, <<"\"">> \o kScore \o <<"\"", ":", "9", "9">>)
  /\ Len(result.v) = 1
  /\ result.v[1].score = 60
  /\ result.v[1].sector_pattern = JStr(PatternA)

\* C7: no call of parseSignalText throws, whatever the input.
C7_NeverThrows == ~ParseThrew

\* C8: every record parseSignalText returns has a non-empty code or a
\* non-empty name, whichever path produced it.
C8_RecordsIdentified ==
  ParseReturned => \A i \in 1..Len(result.v) : hasIdentity(result.v[i])

\* C9: the sector list of every produced record is non-empty.
C9_SectorNonEmpty ==
  ParseReturned => \A i \in 1..Len(result.v) : Len(result.v[i].sector) >= 1

(***************************************************************************)
(* The environment of the normalizers: one call of parseSectorPattern with *)
(* a raw value as a JSON element, a table cell or a label line carries it. *)
(***************************************************************************)
\* white space around a raw text: at most MaxPad characters on each side
MaxPad == 1

LegacyTrue == {<<"t", "r", "u", "e">>, <<"u662F">>, <<"1">>, <<"y", "e", "s">>}

\* true | \u662f | 1 | yes | TRUE | Yes | no | 0 | (empty) | x | false | \u6c34\u4e0b\u62c9 | 1.0
OtherPatternTexts ==
  {<<"T", "R", "U", "E">>,
   <<"Y", "e", "s">>,
   <<"n", "o">>,
   <<"0">>,
   <<>>,
   <<"x">>,
   <<"f", "a", "l", "s", "e">>,
   <<"u6C34", "u4E0B", "u62C9">>,
   <<"1", ".", "0">>}

PatternTexts == {PatternA, PatternB} \cup LegacyTrue \cup OtherPatternTexts

Pads == SeqsUpTo({" ", "\t", "\n"}, 0, MaxPad)

RawPatternValues ==
  {JStr(l \o s \o r) : s \in PatternTexts, l \in Pads, r \in Pads}
    \cup {JBool(TRUE), JBool(FALSE), Null, Undefined, JNum(NaN),
          JNum(MkNum(0, 0)), JNum(MkNum(1, 0)), JNum(MkNum(2, 0)), JNum(MkNum(15, 1)),
          JArr(<<>>), JArr(<<JStr(<<"1">>)>>), JArr(<<JStr(<<"y", "e", "s">>), JStr(<<"x">>)>>),
          JObj(<<>>)}

NormalizerInit ==
  /\ op = "parseSectorPattern"
  /\ arg \in RawPatternValues
  /\ defaultDate = NoDate
  /\ today = <<>>
  /\ result = Pending
  /\ FormClosed
  /\ PagesIdle

CallParseSectorPattern ==
  /\ op = "parseSectorPattern"
  /\ result = Pending
  /\ result' = [t |-> "returned", v |-> parseSectorPattern(arg)]
  /\ UNCHANGED <<op, arg, defaultDate, today, formVars, pageVars>>

NormalizerNext == CallParseSectorPattern

NormalizerSpec == NormalizerInit /\ [][NormalizerNext]_vars

(***************************************************************************)
(* Properties of parseSectorPattern (checked under NormalizerSpec).        *)
(***************************************************************************)
PatternReturned == op = "parseSectorPattern" /\ result.t = "returned"

\* s is w with white space before and after it
IsPadded(s, w) ==
  \E a \in 0..Len(s), b \in 0..Len(s) :
    /\ a <= b
    /\ SubSeq(s, a + 1, b) = w
    /\ \A i \in (1..a) \cup ((b + 1)..Len(s)) : IsSpace(s[i])

\* C10 as stated: the result is a label or null; the two labels and the four
\* legacy values map as listed and every other raw value maps to null.
C10_OnlyListedValues ==
  PatternReturned =>
    /\ result.v \in {JStr(PatternA), JStr(PatternB), Null}
    /\ (arg = JStr(PatternA) => result.v = JStr(PatternA))
    /\ (arg = JStr(PatternB) => result.v = JStr(PatternB))
    /\ (arg \in {JStr(w) : w \in LegacyTrue} => result.v = JStr(PatternA))
    /\ (arg \notin {JStr(w) : w \in {PatternA, PatternB} \cup LegacyTrue}
          => result.v = Null)

\* C10 amended: the raw value counts by its string form, String(value), with
\* the white space around it trimmed: a label maps to itself, a legacy value
\* to pattern A, and a value whose trimmed string form is none of the six
\* maps to null.
C10_TrimmedStringForm ==
  PatternReturned =>
    LET form == toString(arg)
    IN /\ result.v \in {JStr(PatternA), JStr(PatternB), Null}
       /\ (IsPadded(form, PatternA) => result.v = JStr(PatternA))
       /\ (IsPadded(form, PatternB) => result.v = JStr(PatternB))
       /\ ((\E w \in LegacyTrue : IsPadded(form, w)) => result.v = JStr(PatternA))
       /\ ((\A w \in {PatternA, PatternB} \cup LegacyTrue : ~IsPadded(form, w))
             => result.v = Null)

\* " yes" with a blank before it maps to pattern A
C10_Witness ==
  /\ PatternReturned
  /\ arg = JStr(<<" ", "y", "e", "s">>)
  /\ result.v = JStr(PatternA)

(***************************************************************************)
(* components/signal-input.tsx: the manual entry form.                     *)
(***************************************************************************)
\* most openings of the dialog, calls of updateRow, rows added with addRow,
\* POST exchanges in flight, and rows in the table that end the submits
MaxMounts == 1
MaxEdits == 2
MaxFormRows == 2
MaxInFlight == 1
MaxStored == 1

\* "wei fen lei", the placeholder sector of line 86
Unclassified == <<"u672A", "u5206", "u7C7B">>

\* lines 42-54; id stands for crypto.randomUUID()
createEmptyRow(id) ==
  [id |-> id, code |-> <<>>, name |-> <<>>, sector |-> <<>>, sector_pattern |-> <<>>,
   turnover |-> <<>>, chg |-> <<>>, amount |-> <<>>, debt_ratio |-> <<>>]

\* lines 88-91: n != null && !isNaN(n) ? n : null
notNaN(n) == IF n.nan THEN Null ELSE JNum(n)

\* lines 59-62: text ? parseFloat(text) : null
numberField(text) == IF Len(text) = 0 THEN Null ELSE notNaN(parseFloat(text))

\* lines 63-66
sectorList(text) ==
  MapSeq(JStr, SelectSeq(MapSeq(trim, split(text, {",", FullComma, IdeoComma})),
                         LAMBDA x : Len(x) > 0))

\* line 86
sectorOrPlaceholder(sectors) ==
  IF Len(sectors) > 0 THEN sectors ELSE <<JStr(Unclassified)>>

\* lines 74 and 111: code.replace(/[^\d]/g, "").padStart(6, "0")
cleanCode(code) == padStart(SelectSeq(code, IsDigit), 6)

\* lines 77-94
recordOf(row, dateStr, code, name) ==
  IF Len(code) = 0 \/ Len(name) = 0 THEN Null
  ELSE [date |-> JStr(dateStr),
        code |-> code,
        name |-> name,
        sector |-> sectorOrPlaceholder(sectorList(row.sector)),
        sector_pattern |-> IF row.sector_pattern \in {PatternA, PatternB}
                             THEN JStr(row.sector_pattern) ELSE Null,
        turnover |-> numberField(row.turnover),
        chg |-> numberField(row.chg),
        amount |-> numberField(row.amount),
        debt_ratio |-> numberField(row.debt_ratio),
        score |-> 0,
        reason |-> <<>>]

\* lines 56-95: the record of a row, Null for a row that gives none
rowToRecord(row, dateStr) ==
  IF Len(row.code) = 0 /\ Len(row.name) = 0 THEN Null
  ELSE recordOf(row, dateStr, cleanCode(row.code), trim(row.name))

\* lines 263-267: the records of the rows that give one
formRecords(formRows, dateStr) ==
  SelectSeq(MapSeq(LAMBDA row : rowToRecord(row, dateStr), formRows),
            LAMBDA rec : rec # Null)

\* n.toFixed(2) for a number n that is not NaN; a number with more than two
\* decimals is rounded half up
toFixed(n) ==
  LET a == IF n.m < 0 THEN 0 - n.m ELSE n.m
      hundredths == IF n.s <= 2 THEN a * Pow10(2 - n.s)
                    ELSE (a + 5 * Pow10(n.s - 3)) \div Pow10(n.s - 2)
  IN (IF n.m < 0 THEN <<"-">> ELSE <<>>)
       \o natToString(hundredths \div 100) \o <<".">>
       \o zeroPad(natToString(hundredths % 100), 2)

\* lines 134-137: info.x != null ? info.x.toFixed(2) : ""
fixedOrEmpty(x) == IF x.t = "num" THEN toFixed(x.v) ELSE <<>>

\* the value of the response taken whether the field is empty or not
takeFilled(current, filled) == filled

\* r.x || filled: a field that holds text keeps it
keepOr(current, filled) == IF Len(current) > 0 THEN current ELSE filled

\* lines 131-139
fillRow(r, info) ==
  [r EXCEPT
     !.name = keepOr(@, IF truthy(info.name) THEN info.name.v ELSE <<>>),
     !.chg = keepOr(@, fixedOrEmpty(info.chg)),
     !.turnover = keepOr(@, fixedOrEmpty(info.turnover)),
     !.amount = keepOr(@, fixedOrEmpty(info.amount)),
     !.debt_ratio = keepOr(@, fixedOrEmpty(info.debt_ratio)),
     !.sector = keepOr(@, IF truthy(info.industry) THEN toString(info.industry) ELSE r.sector)]

\* a message shown in the form, named by its content
Message(text) == JStr(<<text>>)

\* lines 221-257: 600519, 002371 and 300750
sampleRows(ids) ==
  <<[id |-> ids[1],
     code |-> <<"6", "0", "0", "5", "1", "9">>,
     name |-> <<"u8D35", "u5DDE", "u8305", "u53F0">>,
     sector |-> <<"u767D", "u9152">>,
     sector_pattern |-> PatternA,
     turnover |-> <<"3", ".", "2">>,
     chg |-> <<"2", ".", "5">>,
     amount |-> <<"8", "5">>,
     debt_ratio |-> <<"2", "5", ".", "8">>],
    [id |-> ids[2],
     code |-> <<"0", "0", "2", "3", "7", "1">>,
     name |-> <<"u5317", "u65B9", "u534E", "u521B">>,
     sector |-> <<"u534A", "u5BFC", "u4F53">>,
     sector_pattern |-> PatternB,
     turnover |-> <<"6", ".", "5">>,
     chg |-> <<"5", ".", "1">>,
     amount |-> <<"4", "2">>,
     debt_ratio |-> <<"3", "8", ".", "5">>],
    [id |-> ids[3],
     code |-> <<"3", "0", "0", "7", "5", "0">>,
     name |-> <<"u5B81", "u5FB7", "u65F6", "u4EE3">>,
     sector |-> <<"u9502", "u7535", "u6C60", "u3001", "u65B0", "u80FD", "u6E90">>,
     sector_pattern |-> PatternA,
     turnover |-> <<"8", ".", "1">>,
     chg |-> <<"3", ".", "8">>,
     amount |-> <<"1", "2", "0">>,
     debt_ratio |-> <<"5", "2", ".", "3">>]>>

(***************************************************************************)
(* POST /api/signals.                                                      *)
(***************************************************************************)
\* store client lines 34-38 and POST line 94: a record as JSON.stringify
\* writes it and req.json() reads it
jsonRecord(r) ==
  [date |-> r.date,
   code |-> JStr(r.code),
   name |-> JStr(r.name),
   sector |-> JArr(r.sector),
   sector_pattern |-> r.sector_pattern,
   turnover |-> r.turnover,
   chg |-> r.chg,
   amount |-> r.amount,
   debt_ratio |-> r.debt_ratio,
   score |-> JNum(MkNum(r.score, 0)),
   reason |-> JArr(r.reason)]

jsonBody(records) == JArr(MapSeq(jsonRecord, records))

\* new Date(text) is a date: the dates of the model are yyyy-mm-dd or not dates
isDate(text) ==
  /\ Len(text) = 10
  /\ \A i \in {1, 2, 3, 4, 6, 7, 9, 10} : IsDigit(text[i])
  /\ text[5] = "-" /\ text[8] = "-"

substring(s, n) == SubSeq(s, 1, Min(n, Len(s)))

\* line 136: r.sector.join
sectorString(sector) == joinWith(MapSeq(toString, sector), <<IdeoComma>>)

\* Number(v) for a number, a boolean, null or undefined
Number(v) ==
  CASE v.t = "num" -> v.v
    [] v.t = "null" -> MkNum(0, 0)
    [] v.t = "bool" -> MkNum(IF v.v THEN 1 ELSE 0, 0)
    [] OTHER -> NaN

\* Math.round(n) || 0: the integer nearest to n, the upper one of two, and 0
\* for NaN
roundOrZero(n) ==
  IF n.nan THEN 0 ELSE (2 * n.m + Pow10(n.s)) \div (2 * Pow10(n.s))

\* line 130
postScore(score) == roundOrZero(Number(score))

\* lines 101-120: a record the validation refuses with status 400
refused(r) ==
  \/ ~truthy(r.date) \/ ~truthy(r.code) \/ ~truthy(r.name)
  \/ r.sector.t # "arr"
  \/ r.reason.t # "arr"

\* lines 122-151: a record for which the mapping throws (substring is no
\* function of a value that is no string)
throws(r) ==
  \/ r.date.t = "str" /\ ~isDate(r.date.v)
  \/ postScore(r.score) < 0 \/ postScore(r.score) > 100
  \/ Len(sectorString(r.sector.v)) > 255
  \/ r.code.t # "str" \/ r.name.t # "str"
  \/ truthy(r.sector_pattern) /\ r.sector_pattern.t # "str"

\* lines 152-155: x != null ? Number(x) : null
numberOrAbsent(x) == IF x.t \in {"null", "undefined"} THEN Null ELSE JNum(Number(x))

\* lines 146-158: the table row of a record; reason holds the list that
\* JSON.stringify writes
tableRowOf(r) ==
  [date |-> r.date.v,
   code |-> substring(r.code.v, 16),
   name |-> substring(r.name.v, 64),
   sector |-> sectorString(r.sector.v),
   sectorPattern |-> IF truthy(r.sector_pattern)
                       THEN JStr(substring(r.sector_pattern.v, 32)) ELSE Null,
   turnover |-> numberOrAbsent(r.turnover),
   chg |-> numberOrAbsent(r.chg),
   amount |-> numberOrAbsent(r.amount),
   debtRatio |-> numberOrAbsent(r.debt_ratio),
   score |-> postScore(r.score),
   reason |-> r.reason.v]

\* lines 93-198: the status of the response; created tells whether createMany
\* succeeded
postStatus(body, created) ==
  IF body.t # "arr" THEN 400
  ELSE IF Len(body.v) = 0 \/ \E i \in 1..Len(body.v) : refused(body.v[i]) THEN 400
  ELSE IF \E i \in 1..Len(body.v) : throws(body.v[i]) THEN 500
  ELSE IF created THEN 200
  ELSE 500

(***************************************************************************)
(* The form at work: the user, the timers, the stock-info service, the     *)
(* POST handler and the database.                                          *)
(***************************************************************************)
removeAt(s, k) == SubSeq(s, 1, k - 1) \o SubSeq(s, k + 1, Len(s))

\* the ids that a timer or a lookup of this form still names
pendingIds ==
  {t.id : t \in codeTimeouts} \cup loadingCodes
    \cup {lookups[i].rowId : i \in {j \in 1..Len(lookups) : lookups[j].mount = mount}}

\* n ids of which none is in used: crypto.randomUUID() returns an id that
\* nothing names
freshIds(n, used) ==
  LET free == (1..(Cardinality(used) + n)) \ used
  IN [k \in 1..n |-> CHOOSE i \in free : Cardinality({j \in free : j < i}) = k - 1]

\* the day the calendar cell stands for: 2025-01-06
FormDate == <<"2", "0", "2", "5", "-", "0", "1", "-", "0", "6">>

FormFields ==
  {"code", "name", "sector", "sector_pattern", "turnover", "chg", "amount", "debt_ratio"}

\* what the user types or selects: 600519, 12 | X | bai jiu |
\* none and a label | 8.1 | 2.5
FormValues(field) ==
  CASE field = "code" -> {<<"6", "0", "0", "5", "1", "9">>, <<"1", "2">>}
    [] field = "name" -> {<<"X">>}
    [] field = "sector" -> {<<"u767D", "u9152">>}
    [] field = "sector_pattern" -> {<<"n", "o", "n", "e">>, PatternB}
    [] field = "turnover" -> {<<"8", ".", "1">>}
    [] OTHER -> {<<"2", ".", "5">>}

\* what the stock-info service answers: a stock with its figures, 404, 500,
\* no response at all (status 0)
NoInfo ==
  [name |-> Null, industry |-> Null, chg |-> Null, turnover |-> Null,
   amount |-> Null, debt_ratio |-> Null]

StockInfoResponses ==
  {[status |-> 200,
    info |-> [name |-> JStr(<<"Y">>), industry |-> JStr(<<"u767D", "u9152">>),
              chg |-> JNum(MkNum(25, 1)), turnover |-> JNum(MkNum(32, 1)),
              amount |-> JNum(MkNum(85, 0)), debt_ratio |-> Null]],
   [status |-> 404, info |-> NoInfo],
   [status |-> 500, info |-> NoInfo],
   [status |-> 0, info |-> NoInfo]}

FormInit ==
  /\ op = "form"
  /\ arg = Null
  /\ defaultDate = NoDate
  /\ today = <<>>
  /\ result = Pending
  /\ FormClosed
  /\ PagesIdle

\* the form is gone: its state with it, and the timers of lines 203-208
unmount ==
  /\ inputOpen' = FALSE
  /\ rows' = <<>>
  /\ error' = Null
  /\ loadingCodes' = {}
  /\ codeTimeouts' = {}

\* operation-suggestions.tsx lines 489-494: a double click on a trading day
\* opens the dialog, which mounts a new form (signal-input.tsx lines 98-106)
onDoubleClick(dateStr) ==
  /\ ~inputOpen
  /\ mount < MaxMounts
  /\ inputOpen' = TRUE
  /\ mount' = mount + 1
  /\ date' = dateStr
  /\ rows' = <<createEmptyRow(1)>>
  /\ error' = Null
  /\ loadingCodes' = {}
  /\ codeTimeouts' = {}
  /\ UNCHANGED <<pageVars, callVars, lookups, edits, posts, replies, stored, alerted>>

\* operation-suggestions.tsx lines 853-864: the dialog is closed
onOpenChange ==
  /\ inputOpen
  /\ unmount
  /\ UNCHANGED <<pageVars, callVars, mount, date, lookups, edits, posts, replies, stored, alerted>>

\* updateRow that sets its timer and clears none
updateRowKeepingTimers(id, field, value) ==
  /\ inputOpen
  /\ edits < MaxEdits
  /\ \E i \in 1..Len(rows) : rows[i].id = id
  /\ edits' = edits + 1
  /\ rows' = [i \in 1..Len(rows) |->
                IF rows[i].id = id THEN [rows[i] EXCEPT ![field] = value] ELSE rows[i]]
  /\ codeTimeouts' = IF field = "code"
                       THEN codeTimeouts \cup {[id |-> id, value |-> value]}
                       ELSE codeTimeouts
  /\ UNCHANGED <<pageVars, callVars, inputOpen, mount, date, error, loadingCodes, lookups,
                 posts, replies, stored, alerted>>

\* lines 169-200
updateRow(id, field, value) ==
  /\ inputOpen
  /\ edits < MaxEdits
  /\ \E i \in 1..Len(rows) : rows[i].id = id
  /\ edits' = edits + 1
  /\ rows' = [i \in 1..Len(rows) |->
                IF rows[i].id = id THEN [rows[i] EXCEPT ![field] = value] ELSE rows[i]]
  /\ codeTimeouts' = IF field = "code"
                       THEN {t \in codeTimeouts : t.id # id} \cup {[id |-> id, value |-> value]}
                       ELSE codeTimeouts
  /\ UNCHANGED <<pageVars, callVars, inputOpen, mount, date, error, loadingCodes, lookups,
                 posts, replies, stored, alerted>>

\* lines 185-190, the timer of a row fires, and lines 110-123, fetchStockInfo
\* up to its request
codeTimeout(t) ==
  /\ t \in codeTimeouts
  /\ codeTimeouts' = codeTimeouts \ {t}
  /\ IF Len(trim(t.value)) >= 6 /\ Len(cleanCode(t.value)) = 6
       THEN /\ loadingCodes' = loadingCodes \cup {t.id}
            /\ lookups' = Append(lookups, [mount |-> mount, rowId |-> t.id,
                                           code |-> cleanCode(t.value)])
       ELSE UNCHANGED <<loadingCodes, lookups>>
  /\ UNCHANGED <<pageVars, callVars, inputOpen, mount, date, rows, error, edits, posts, replies,
                 stored, alerted>>

\* lines 125-164: fetchStockInfo from the response on; the setters of a form
\* that is gone change nothing
stockInfoResponse(k, response) ==
  /\ k \in 1..Len(lookups)
  /\ lookups' = removeAt(lookups, k)
  /\ IF inputOpen /\ lookups[k].mount = mount
       THEN /\ rows' = IF response.status = 200
                         THEN [i \in 1..Len(rows) |->
                                 IF rows[i].id = lookups[k].rowId
                                   THEN fillRow(rows[i], response.info) ELSE rows[i]]
                         ELSE rows
            /\ error' = IF response.status = 200 THEN Null
                        ELSE IF response.status = 404
                          THEN JStr(<<"stock code not found">> \o lookups[k].code)
                        ELSE IF response.status = 500 THEN Message("error of the response")
                        ELSE Message("lookup failed")
            /\ loadingCodes' = loadingCodes \ {lookups[k].rowId}
       ELSE UNCHANGED <<rows, error, loadingCodes>>
  /\ UNCHANGED <<pageVars, callVars, inputOpen, mount, date, codeTimeouts, edits, posts, replies,
                 stored, alerted>>

\* lines 210-212
addRow ==
  /\ inputOpen
  /\ Len(rows) < MaxFormRows
  /\ rows' = Append(rows, createEmptyRow(freshIds(1, pendingIds \cup {rows[i].id : i \in 1..Len(rows)})[1]))
  /\ UNCHANGED <<pageVars, callVars, inputOpen, mount, date, error, loadingCodes, codeTimeouts,
                 lookups, edits, posts, replies, stored, alerted>>

\* lines 214-219
removeRow(id) ==
  /\ inputOpen
  /\ \E i \in 1..Len(rows) : rows[i].id = id
  /\ rows' = IF Len(rows) <= 1 THEN rows ELSE SelectSeq(rows, LAMBDA r : r.id # id)
  /\ UNCHANGED <<pageVars, callVars, inputOpen, mount, date, error, loadingCodes, codeTimeouts,
                 lookups, edits, posts, replies, stored, alerted>>

\* lines 221-257
addSampleData ==
  /\ inputOpen
  /\ rows' = sampleRows(freshIds(3, pendingIds))
  /\ UNCHANGED <<pageVars, callVars, inputOpen, mount, date, error, loadingCodes, codeTimeouts,
                 lookups, edits, posts, replies, stored, alerted>>

\* lines 286-289
handleClearAll ==
  /\ inputOpen
  /\ rows' = <<createEmptyRow(freshIds(1, pendingIds)[1])>>
  /\ error' = Null
  /\ UNCHANGED <<pageVars, callVars, inputOpen, mount, date, loadingCodes, codeTimeouts,
                 lookups, edits, posts, replies, stored, alerted>>

\* lines 261-274: handleSubmit up to the request that onParsed (page.tsx
\* handleParsed, the store client's addRecords) sends
submitRecords(records) ==
  IF Len(records) = 0
    THEN /\ error' = Message("at least one valid signal")
         /\ UNCHANGED posts
    ELSE /\ error' = Null
         /\ posts' = Append(posts, [mount |-> mount, records |-> records,
                                     body |-> jsonBody(records)])

handleSubmit ==
  /\ inputOpen
  /\ Len(posts) + Len(replies) < MaxInFlight
  /\ Len(stored) < MaxStored
  /\ submitRecords(formRecords(rows, date))
  /\ UNCHANGED <<pageVars, callVars, inputOpen, mount, date, rows, loadingCodes, codeTimeouts,
                 lookups, edits, replies, stored, alerted>>

\* respond writing the records that pass by themselves though the status is
\* an error
respondPartially(k, status) ==
  /\ posts' = removeAt(posts, k)
  /\ replies' = Append(replies, [mount |-> posts[k].mount, status |-> status,
                                 count |-> IF status = 200 THEN Len(posts[k].body.v) ELSE 0])
  /\ stored' = IF posts[k].body.t = "arr"
                 THEN stored \o MapSeq(tableRowOf,
                                       SelectSeq(posts[k].body.v,
                                                 LAMBDA r : ~refused(r) /\ ~throws(r)))
                 ELSE stored

\* POST /api/signals lines 92-199 for the request k: createMany writes all
\* rows or none, and the response of a success tells their count
respond(k, status) ==
  /\ posts' = removeAt(posts, k)
  /\ replies' = Append(replies, [mount |-> posts[k].mount, status |-> status,
                                 count |-> IF status = 200 THEN Len(posts[k].body.v) ELSE 0])
  /\ stored' = IF status = 200 THEN stored \o MapSeq(tableRowOf, posts[k].body.v)
               ELSE stored

POST(k, created) ==
  /\ k \in 1..Len(posts)
  /\ respond(k, postStatus(posts[k].body, created))
  /\ UNCHANGED <<pageVars, callVars, inputOpen, mount, date, rows, error, loadingCodes,
                 codeTimeouts, lookups, edits, alerted>>

\* The response k arrives: addRecords throws unless it is ok, page.tsx
\* handleParsed (lines 25-39) catches that and shows an alert, and handleSubmit
\* goes on after its await (signal-input.tsx lines 275-280): it resets the rows
\* and calls onSubmitted, which closes the dialog
\* (operation-suggestions.tsx lines 879-883).
handleParsed(k) ==
  /\ k \in 1..Len(replies)
  /\ replies' = removeAt(replies, k)
  /\ alerted' = (replies[k].status # 200)
  /\ unmount
  /\ UNCHANGED <<pageVars, callVars, mount, date, lookups, edits, posts, stored>>

FormNext ==
  \/ onDoubleClick(FormDate)
  \/ onOpenChange
  \/ \E i \in 1..Len(rows), field \in FormFields :
       \E value \in FormValues(field) : updateRow(rows[i].id, field, value)
  \/ \E t \in codeTimeouts : codeTimeout(t)
  \/ \E k \in 1..Len(lookups), response \in StockInfoResponses : stockInfoResponse(k, response)
  \/ addRow
  \/ \E i \in 1..Len(rows) : removeRow(rows[i].id)
  \/ addSampleData
  \/ handleClearAll
  \/ handleSubmit
  \/ \E k \in 1..Len(posts), created \in BOOLEAN : POST(k, created)
  \/ \E k \in 1..Len(replies) : handleParsed(k)

FormSpec == FormInit /\ [][FormNext]_vars

(***************************************************************************)
(* Properties of the manual entry form (checked under FormSpec).           *)
(***************************************************************************)
\* C6: every record the form hands to POST /api/signals has the score that
\* calculateScore gives for its sector_pattern and turnover, and a reason
\* list that is not empty.
C6_FormRecordsScored ==
  \A k \in 1..Len(posts) : \A i \in 1..Len(posts[k].records) :
    /\ posts[k].records[i].score
         = calculateScore([sector_pattern |-> posts[k].records[i].sector_pattern,
                           turnover |-> posts[k].records[i].turnover]).score
    /\ Len(posts[k].records[i].reason) > 0

(***************************************************************************)
(* The environment of the record builders: one call of parseSignalText, or *)
(* one call of rowToRecord with a row of the entry form.                   *)
(***************************************************************************)
\* the texts of a row's fields: 600519, 1 | " X " | bai jiu | pattern A |
\* 8.1, abc, 0 | - | 85 | x
RowArgs ==
  [id : {1},
   code : {<<>>, <<"6", "0", "0", "5", "1", "9">>, <<"1">>},
   name : {<<>>, <<" ", "X", " ">>},
   sector : {<<>>, <<"u767D", "u9152">>},
   sector_pattern : {<<>>, PatternA},
   turnover : {<<>>, <<"8", ".", "1">>, <<"a", "b", "c">>, <<"0">>},
   chg : {<<>>, <<"-">>},
   amount : {<<>>, <<"8", "5">>},
   debt_ratio : {<<>>, <<"x">>}]

RowInit ==
  /\ op = "rowToRecord"
  /\ arg \in {[t |-> "row", v |-> row] : row \in RowArgs}
  /\ defaultDate = JStr(FormDate)
  /\ today = FormDate
  /\ result = Pending
  /\ FormClosed
  /\ PagesIdle

CallRowToRecord ==
  /\ op = "rowToRecord"
  /\ result = Pending
  /\ result' = [t |-> "returned", v |-> rowToRecord(arg.v, defaultDate.v)]
  /\ UNCHANGED <<op, arg, defaultDate, today, formVars, pageVars>>

RecordInit == ParserInit \/ RowInit

RecordNext == CallParseSignalText \/ CallRowToRecord

RecordSpec == RecordInit /\ [][RecordNext]_vars

(***************************************************************************)
(* Properties of the records built (checked under RecordSpec).             *)
(***************************************************************************)
\* rowToRecord returned a record, not null
RowReturned == op = "rowToRecord" /\ result.t = "returned" /\ "t" \notin DOMAIN result.v

NumericFields == {"turnover", "chg", "amount", "debt_ratio"}

IsNumberOrNull(x) == x.t = "null" \/ (x.t = "num" /\ ~x.v.nan)

\* C11: in every record parseSignalText or rowToRecord produces, each of
\* turnover, chg, amount and debt_ratio is a number or null, never NaN.
C11_NumbersOrNull ==
  /\ ParseReturned =>
       \A i \in 1..Len(result.v) : \A f \in NumericFields : IsNumberOrNull(result.v[i][f])
  /\ RowReturned => \A f \in NumericFields : IsNumberOrNull(result.v[f])

\* the row whose turnover reads abc and whose chg reads - gives a record with
\* both null and the amount 85
C11_Witness ==
  /\ RowReturned
  /\ arg.v.turnover = <<"a", "b", "c">>
  /\ arg.v.chg = <<"-">>
  /\ result.v.turnover = Null
  /\ result.v.chg = Null
  /\ result.v.amount = JNum(MkNum(85, 0))

(***************************************************************************)
(* The environment of the field normalizers: one call of normalizeCode     *)
(* with a raw code, or one evaluation of a numeric field of                *)
(* normalizeRecord with a raw value.                                       *)
(***************************************************************************)
\* the longest raw code
MaxCodeLen == 7

\* raw codes: the texts over 0, 1 and x, 600519, and values that are no string
RawCodes ==
  {JStr(s) : s \in SeqsUpTo({"0", "1", "x"}, 0, MaxCodeLen)}
    \cup {JStr(<<"6", "0", "0", "5", "1", "9">>), Null, Undefined,
          JNum(MkNum(0, 0)), JNum(MkNum(2371, 0))}

\* raw numbers: a sign, then 0 | 0.0 | 6.5 | 12 | abc | (empty) | .5 | 1,234,
\* then nothing, %, yi, wan or the fullwidth percent; and values that are no
\* string
RawNumberTexts ==
  {sign \o body \o unit :
     sign \in {<<>>, <<"-">>, <<"+">>},
     body \in {<<"0">>, <<"0", ".", "0">>, <<"6", ".", "5">>, <<"1", "2">>,
               <<"a", "b", "c">>, <<>>, <<".", "5">>, <<"1", ",", "2", "3", "4">>},
     unit \in {<<>>, <<"%">>, <<"u4EBF">>, <<"u4E07">>, <<FullPercent>>}}

RawNumbers ==
  {JStr(s) : s \in RawNumberTexts}
    \cup {JNum(MkNum(0, 0)), JNum(MkNum(65, 1)), JNum(NaN), Null, Undefined, JBool(TRUE)}

FieldInit ==
  /\ \/ op = "normalizeCode" /\ arg \in RawCodes
     \/ op \in {"percentOrNull", "amountOrNull"} /\ arg \in RawNumbers
  /\ defaultDate = NoDate
  /\ today = <<>>
  /\ result = Pending
  /\ FormClosed
  /\ PagesIdle

CallNormalizeCode ==
  /\ op = "normalizeCode"
  /\ result = Pending
  /\ result' = [t |-> "returned", v |-> normalizeCode(arg)]
  /\ UNCHANGED <<op, arg, defaultDate, today, formVars, pageVars>>

CallPercentOrNull ==
  /\ op = "percentOrNull"
  /\ result = Pending
  /\ result' = [t |-> "returned", v |-> percentOrNull(arg)]
  /\ UNCHANGED <<op, arg, defaultDate, today, formVars, pageVars>>

CallAmountOrNull ==
  /\ op = "amountOrNull"
  /\ result = Pending
  /\ result' = [t |-> "returned", v |-> amountOrNull(arg)]
  /\ UNCHANGED <<op, arg, defaultDate, today, formVars, pageVars>>

FieldNext == CallNormalizeCode \/ CallPercentOrNull \/ CallAmountOrNull

FieldSpec == FieldInit /\ [][FieldNext]_vars

(***************************************************************************)
(* Properties of the field normalizers (checked under FieldSpec).          *)
(***************************************************************************)
NumberReturned == op \in {"percentOrNull", "amountOrNull"} /\ result.t = "returned"

CodeReturned == op = "normalizeCode" /\ result.t = "returned"

\* the raw value as a text without its percent sign, or without its magnitude
\* characters and commas
StrippedText(field, raw) ==
  IF field = "amountOrNull"
    THEN removeAll(toString(raw), {"u4EBF", "u4E07", ","})
    ELSE replaceFirst(toString(raw), "%")

\* C12: a numeric field is the parsed number for every raw value that parses
\* as a float once the percent and magnitude characters are stripped, and is
\* null only for a raw value that is empty or does not parse; a raw 0 gives
\* the number 0.
C12_ParsedNumberKept ==
  NumberReturned => result.v = notNaN(parseFloat(StrippedText(op, arg)))

IsDigits(s) == \A i \in 1..Len(s) : IsDigit(s[i])

Zeros(n) == [i \in 1..n |-> "0"]

\* C13 as stated: for every string of 0 to 6 digits normalizeCode returns the
\* 6 characters that are the input right-aligned and left-padded with 0.
C13_PaddedToSix ==
  (CodeReturned /\ arg.t = "str" /\ IsDigits(arg.v) /\ Len(arg.v) <= 6) =>
    /\ Len(result.v) = 6
    /\ result.v = Zeros(6 - Len(arg.v)) \o arg.v

\* C13 amended: for every string of 1 to 6 digits normalizeCode returns the
\* 6 characters that are the input right-aligned and left-padded with 0; for
\* the empty string it returns the empty string.
C13_NonEmptyPaddedToSix ==
  (CodeReturned /\ arg.t = "str" /\ IsDigits(arg.v) /\ Len(arg.v) <= 6) =>
    IF Len(arg.v) = 0 THEN result.v = <<>>
    ELSE /\ Len(result.v) = 6
         /\ result.v = Zeros(6 - Len(arg.v)) \o arg.v

\* normalizeCode("1") returned "000001"
C13_Witness ==
  /\ CodeReturned
  /\ arg = JStr(<<"1">>)
  /\ result.v = <<"0", "0", "0", "0", "0", "1">>

\* C14: for an input with more than 6 digits normalizeCode returns exactly
\* the input's digits, all of them and in their order, with no padding.
C14_NeverTruncates ==
  (CodeReturned /\ arg.t = "str" /\ Len(SelectSeq(arg.v, IsDigit)) > 6) =>
    /\ result.v = SelectSeq(arg.v, IsDigit)
    /\ Len(result.v) > 6

\* normalizeCode("1010101") returned the 7 digits
C14_Witness ==
  /\ CodeReturned
  /\ arg = JStr(<<"1", "0", "1", "0", "1", "0", "1">>)
  /\ result.v = <<"1", "0", "1", "0", "1", "0", "1">>

(***************************************************************************)
(* Properties of the paths of parseSignalText (checked under ParserSpec).  *)
(***************************************************************************)
ParseDone == op = "parseSignalText" /\ result.t # "pending" /\ arg.t = "str"

\* the trimmed input starts with [
LooksLikeJson == startsWith(trim(arg.v), <<"[">>)

\* C15: when the trimmed input starts with [ and parses as JSON,
\* parseSignalText returns one record per array element, in array order, each
\* the normalized element, without trying the other paths; when it does not
\* parse, nothing is thrown.
C15_JsonPathFirst ==
  (ParseDone /\ LooksLikeJson) =>
    /\ result.t = "returned"
    /\ JSONparse(trim(arg.v)).ok =>
         /\ Len(result.v) = Len(JSONparse(trim(arg.v)).v.v)
         /\ \A i \in 1..Len(result.v) :
              /\ ~normalizeRecord(JSONparse(trim(arg.v)).v.v[i], defaultDate, today).threw
              /\ result.v[i] = normalizeRecord(JSONparse(trim(arg.v)).v.v[i], defaultDate, today).v

\* the input is a text that the JSON path does not return
TextPath == ParseDone /\ ~jsonPath(trim(arg.v), defaultDate, today).ok

TextLines == nonBlankLines(trim(arg.v))

TableRecords == keptRecords(tablePath(TextLines, defaultDate, today))

BlockRecords == keptRecords(blockPath(trim(arg.v), defaultDate, today))

\* C16: the label-block path is tried exactly when the table path gave no
\* record: a table path with records gives the result alone, an empty one
\* leaves the result to the label blocks, and no record on any path gives the
\* empty list.
C16_LabelPathOnlyAfterEmptyTable ==
  (TextPath /\ result.t = "returned") =>
    IF Len(TextLines) = 0 THEN result.v = <<>>
    ELSE IF Len(TableRecords) > 0 THEN result.v = TableRecords
    ELSE result.v = BlockRecords

\* the row 600519,X,8.1% over the label line of the name: the result is the
\* row's record alone, though the label line by itself gives a record
C16_Witness ==
  /\ TextPath
  /\ result.t = "returned"
  /\ arg = JStr(TextRowAndLabel)
  /\ Len(BlockRecords) = 1
  /\ Len(result.v) = 1
  /\ result.v[1].name = <<"X">>
  /\ result.v[1].code = <<"6", "0", "0", "5", "1", "9">>

\* the input goes the table path and its first line is a header line
HeaderTable ==
  /\ TextPath
  /\ result.t = "returned"
  /\ Len(TextLines) > 0
  /\ isHeaderLine(toLowerCase(TextLines[1]))

TableSeparator == detectSeparator(toLowerCase(TextLines[1]))

HeaderCells == MapSeq(LAMBDA h : toLowerCase(trim(h)), split(TextLines[1], {TableSeparator}))

CellsOf(line) == MapSeq(trim, split(trim(line), {TableSeparator}))

\* the fields of a row by position: the i-th cell under the i-th header, for
\* the headers the dictionary knows and the cells the row has
RawByPosition(cells) ==
  LET n == Min(Len(HeaderCells), Len(cells))
      known == SelectSeq([i \in 1..n |-> i], LAMBDA i : truthy(mapHeaderToKey(HeaderCells[i])))
  IN JObj([k \in 1..Len(known) |->
             <<mapHeaderToKey(HeaderCells[known[k]]).v, JStr(cells[known[k]])>>])

\* the records of the data rows that have at least minCells cells and are no
\* label lines, each normalized from its fields by position, those without
\* code and name dropped
RecordsByPosition(minCells) ==
  SelectSeq(
    MapSeq(LAMBDA line : normalizeRecord(RawByPosition(CellsOf(line)), defaultDate, today).v,
           SelectSeq(Tail(TextLines),
                     LAMBDA line : ~isLabelLine(trim(line)) /\ Len(CellsOf(line)) >= minCells)),
    hasIdentity)

\* C17 as stated: under a header line every data row gives the record of its
\* cells by position, a missing cell leaving its field unset.
C17_EveryRowByPosition ==
  (HeaderTable /\ Len(RecordsByPosition(1)) > 0) => result.v = RecordsByPosition(1)

\* C17 amended: under a header line every data row of at least two cells
\* gives the record of its cells by position: cells beyond the headers and
\* columns of unknown headers are ignored, a missing cell leaves its field
\* unset; a row of a single cell gives no record.
C17_RowsOfTwoCellsByPosition ==
  (HeaderTable /\ Len(RecordsByPosition(2)) > 0) => result.v = RecordsByPosition(2)

\* scenario B: the header of code, name and turnover over the row 002371,Y,6.5
\* gives one record with these, no sector pattern and the score 20
C17_Witness ==
  /\ HeaderTable
  /\ arg = JStr(tableText(HeaderChinese, <<RowFull>>, ","))
  /\ Len(result.v) = 1
  /\ result.v[1].code = <<"0", "0", "2", "3", "7", "1">>
  /\ result.v[1].name = <<"Y">>
  /\ result.v[1].turnover = JNum(MkNum(65, 1))
  /\ result.v[1].sector_pattern = Null
  /\ result.v[1].score = 20

(***************************************************************************)
(* The environment of repeated scoring: calculateScore is called up to     *)
(* MaxCalls times with the same record.                                    *)
(***************************************************************************)
MaxCalls == 2

RepeatInit ==
  /\ op = "calculateScore repeated"
  /\ arg \in ScoreArgs
  /\ defaultDate = NoDate
  /\ today = <<>>
  /\ result = Pending
  /\ FormClosed
  /\ PagesIdle

\* the first call: given is the record as it was passed, first what the call
\* returned; calculateScore assigns to no field of its argument
CallFirst ==
  /\ op = "calculateScore repeated"
  /\ result = Pending
  /\ result' = [t |-> "returned", call |-> 1, given |-> arg,
                first |-> calculateScoreAfter(arg, <<>>),
                v |-> calculateScoreAfter(arg, <<>>)]
  /\ UNCHANGED <<op, arg, defaultDate, today, formVars, pageVars>>

\* a further call with the same record
CallAgain ==
  /\ op = "calculateScore repeated"
  /\ result.t = "returned"
  /\ result.call < MaxCalls
  /\ result' = [result EXCEPT !.call = @ + 1,
                              !.v = calculateScoreAfter(arg, result.v.reason)]
  /\ UNCHANGED <<op, arg, defaultDate, today, formVars, pageVars>>

RepeatNext == CallFirst \/ CallAgain

RepeatSpec == RepeatInit /\ [][RepeatNext]_vars

(***************************************************************************)
(* Properties of repeated scoring (checked under RepeatSpec).              *)
(***************************************************************************)
Repeated == op = "calculateScore repeated" /\ result.t = "returned"

C19_ClampNeverActs ==
  ScoreReturned =>
    /\ rawScore(arg) \in 0..60
    /\ clamp(rawScore(arg)) = rawScore(arg)
    /\ result.v.score = rawScore(arg)

\* pattern A with the turnover 12 reaches the maximum 60
C19_Witness ==
  /\ ScoreReturned
  /\ arg = [sector_pattern |-> JStr(PatternA), turnover |-> JNum(MkNum(120, 1))]
  /\ rawScore(arg) = 60
  /\ result.v.score = 60


(***************************************************************************)
(* POST /api/signals called by a client of the API: the body is any JSON   *)
(* value, the same request may be sent again.                              *)
(***************************************************************************)
\* records of a request body: at most MaxBatch
MaxBatch == 2
\* requests a client sends: at most MaxRequests
MaxRequests == 2

ValidBodyRecord ==
  [date |-> JStr(FormDate),
   code |-> JStr(<<"6", "0", "0", "5", "1", "9">>),
   name |-> JStr(<<"X">>),
   sector |-> JArr(<<JStr(<<"u767D", "u9152">>)>>),
   sector_pattern |-> Null,
   turnover |-> JNum(MkNum(65, 1)),
   chg |-> Null,
   amount |-> Null,
   debt_ratio |-> Null,
   score |-> JNum(MkNum(20, 0)),
   reason |-> JArr(<<>>)]

LongSector == JArr(<<JStr([i \in 1..256 |-> "x"])>>)

BodyRecords ==
  { ValidBodyRecord,
    [ValidBodyRecord EXCEPT !.score = JNum(MkNum(100, 0)),
                            !.sector_pattern = JStr(PatternA)],
    [ValidBodyRecord EXCEPT !.score = Undefined],
    [ValidBodyRecord EXCEPT !.date = Null],
    [ValidBodyRecord EXCEPT !.code = JStr(<<>>)],
    [ValidBodyRecord EXCEPT !.code = JNum(MkNum(600519, 0))],
    [ValidBodyRecord EXCEPT !.name = Undefined],
    [ValidBodyRecord EXCEPT !.sector = JStr(<<"u767D", "u9152">>)],
    [ValidBodyRecord EXCEPT !.reason = Null],
    [ValidBodyRecord EXCEPT !.date = JStr(<<"s", "o", "o", "n">>)],
    [ValidBodyRecord EXCEPT !.score = JNum(MkNum(-1, 0))],
    [ValidBodyRecord EXCEPT !.score = JNum(MkNum(101, 0))],
    [ValidBodyRecord EXCEPT !.score = JNum(MkNum(1004, 1))],
    [ValidBodyRecord EXCEPT !.score = JNum(MkNum(-4, 1))],
    [ValidBodyRecord EXCEPT !.score = JNum(MkNum(1005, 1))],
    [ValidBodyRecord EXCEPT !.sector = LongSector] }

Bodies ==
  {Null} \cup { JArr(records) : records \in UNION { [1..n -> BodyRecords] : n \in 0..MaxBatch } }

PostInit ==
  /\ op = "POST"
  /\ arg \in Bodies
  /\ defaultDate = NoDate
  /\ today = <<>>
  /\ result = Pending
  /\ FormClosed
  /\ PagesIdle

\* the client sends its body; no form is mounted, the request belongs to none
clientPost ==
  /\ op = "POST"
  /\ posts = <<>>
  /\ Len(replies) < MaxRequests
  /\ posts' = <<[mount |-> 0, records |-> <<>>, body |-> arg]>>
  /\ UNCHANGED <<pageVars, callVars, inputOpen, mount, date, rows, error, loadingCodes,
                 codeTimeouts, lookups, edits, replies, stored, alerted>>

PostNext ==
  \/ clientPost
  \/ \E created \in BOOLEAN : POST(1, created)

PostSpec == PostInit /\ [][PostNext]_vars

\* the requests answered so far, and those answered with a success
Answered == op = "POST" /\ replies # <<>>

Successes == { i \in 1..Len(replies) : replies[i].status = 200 }

\* the value of a score as a number is outside 0..100
OutsideRange(score) ==
  LET n == Number(score)
  IN  ~n.nan /\ (n.m < 0 \/ n.m > 100 * Pow10(n.s))

\* a record fails the validation but for its score
FailsButScore(r) ==
  \/ ~truthy(r.date) \/ ~truthy(r.code) \/ ~truthy(r.name)
  \/ r.sector.t # "arr"
  \/ r.reason.t # "arr"
  \/ r.date.t = "str" /\ ~isDate(r.date.v)
  \/ r.sector.t = "arr" /\ Len(joinWith(MapSeq(toString, r.sector.v), <<IdeoComma>>)) > 255

FailsAsStated(r) == FailsButScore(r) \/ OutsideRange(r.score)

FailsRounded(r) ==
  \/ FailsButScore(r)
  \/ roundOrZero(Number(r.score)) < 0
  \/ roundOrZero(Number(r.score)) > 100

\* the table holds the whole batch once for every success, and nothing else
WholeBatches ==
  IF arg.t # "arr" \/ Successes = {} THEN stored = <<>>
  ELSE /\ Len(stored) = Cardinality(Successes) * Len(arg.v)
       /\ \A j \in 1..Len(stored) :
            stored[j] = tableRowOf(arg.v[((j - 1) % Len(arg.v)) + 1])

\* C20 as stated: when a record of the batch lacks date, code or name, has a
\* sector or a reason that is no array, a date that does not parse, a score
\* outside 0..100 or a joined sector longer than 255 characters, every
\* response is an error and no record of the batch is stored; records are
\* stored only as whole batches.
C20_AllOrNothing ==
  Answered =>
    /\ WholeBatches
    /\ (arg.t = "arr" /\ \E i \in 1..Len(arg.v) : FailsAsStated(arg.v[i]))
         => (Successes = {} /\ stored = <<>>)

\* C20 amended: the same with the score judged after rounding it to the
\* nearest integer, which is the score that is stored.
C20_AllOrNothingRounded ==
  Answered =>
    /\ WholeBatches
    /\ (arg.t = "arr" /\ \E i \in 1..Len(arg.v) : FailsRounded(arg.v[i]))
         => (Successes = {} /\ stored = <<>>)
    /\ \A j \in 1..Len(stored) : stored[j].score \in 0..100

\* a batch of a valid record and a record without a name, sent twice and
\* refused twice, nothing stored
C20_Witness ==
  /\ op = "POST"
  /\ arg = JArr(<<ValidBodyRecord, [ValidBodyRecord EXCEPT !.name = Undefined]>>)
  /\ Len(replies) = 2
  /\ \A i \in 1..2 : replies[i].status = 400
  /\ stored = <<>>

(***************************************************************************)
(* POST /api/sector-screenshots (sector-screenshots route, lines 77-117)   *)
(* and the sector_screenshots table.  A request is handled in two steps,   *)
(* findFirst and then update or create, and the steps of different         *)
(* requests interleave.                                                    *)
(***************************************************************************)
\* uploads sent: at most MaxUploads
MaxUploads == 3

NoDateText == <<>>

SoonText == <<"s", "o", "o", "n">>

ShotBodies ==
  { [date |-> FormDate, sector |-> s, imageDataUrl |-> i] : s \in {"S1", "S2"}, i \in {"I1", "I2"} }
    \cup { [date |-> NoDateText, sector |-> "S1", imageDataUrl |-> "I1"],
           [date |-> SoonText, sector |-> "S1", imageDataUrl |-> "I1"],
           [date |-> FormDate, sector |-> "", imageDataUrl |-> "I1"],
           [date |-> FormDate, sector |-> "S1", imageDataUrl |-> ""] }

\* line 82
shotRefused(body) ==
  body.date = <<>> \/ body.sector = "" \/ body.imageDataUrl = ""

\* lines 87-92: the id of the first row of the pair, 0 for null
findFirst(table, d, sector) ==
  LET found == { id \in 1..Len(table) : table[id].date = d /\ table[id].sector = sector }
  IN  IF found = {} THEN 0 ELSE CHOOSE id \in found : \A o \in found : id <= o

\* create with no unique index on the table
createUnchecked(table, row) == [ok |-> TRUE, table |-> Append(table, row)]

\* lines 100-106 under the unique index (date, sector) of the table: the
\* insert of a second row of a pair fails
create(table, row) ==
  IF \E id \in 1..Len(table) : table[id].date = row.date /\ table[id].sector = row.sector
    THEN [ok |-> FALSE, table |-> table]
    ELSE [ok |-> TRUE, table |-> Append(table, row)]

\* lines 95-98
update(table, id, imageData) == [table EXCEPT ![id].imageData = imageData]

ShotInit ==
  /\ op = "screenshots"
  /\ arg = Null
  /\ defaultDate = NoDate
  /\ today = <<>>
  /\ result = Pending
  /\ FormClosed
  /\ PagesIdle

\* store client lines 198-211: the request is sent
upsertSectorScreenshot(shot) ==
  /\ op = "screenshots"
  /\ Len(uploads) < MaxUploads
  /\ uploads' = Append(uploads, [body |-> shot, phase |-> "sent", existing |-> 0, status |-> 0])
  /\ UNCHANGED <<callVars, formVars, shots, stocks, panel, chat>>

\* lines 80-92: the body is validated and the row of its pair looked up; a
\* date that is none makes the query throw
shotFind(k) ==
  /\ op = "screenshots"
  /\ k \in 1..Len(uploads)
  /\ uploads[k].phase = "sent"
  /\ LET u == uploads[k]
     IN  uploads' =
           [uploads EXCEPT ![k] =
              IF shotRefused(u.body) THEN [u EXCEPT !.phase = "done", !.status = 400]
              ELSE IF ~isDate(u.body.date) THEN [u EXCEPT !.phase = "done", !.status = 500]
              ELSE [u EXCEPT !.phase = "found",
                             !.existing = findFirst(shots, u.body.date, u.body.sector)]]
  /\ UNCHANGED <<callVars, formVars, shots, stocks, panel, chat>>

\* lines 94-116: the row found is updated, or a row is created
shotWrite(k) ==
  /\ op = "screenshots"
  /\ k \in 1..Len(uploads)
  /\ uploads[k].phase = "found"
  /\ LET body == uploads[k].body
         made == create(shots, [date |-> body.date, sector |-> body.sector,
                                imageData |-> body.imageDataUrl])
     IN  IF uploads[k].existing # 0
           THEN /\ shots' = update(shots, uploads[k].existing, body.imageDataUrl)
                /\ uploads' = [uploads EXCEPT ![k].phase = "done", ![k].status = 200]
           ELSE /\ shots' = made.table
                /\ uploads' = [uploads EXCEPT ![k].phase = "done",
                                              ![k].status = IF made.ok THEN 200 ELSE 500]
  /\ UNCHANGED <<callVars, formVars, stocks, panel, chat>>

ShotNext ==
  \/ \E shot \in ShotBodies : upsertSectorScreenshot(shot)
  \/ \E k \in 1..Len(uploads) : shotFind(k)
  \/ \E k \in 1..Len(uploads) : shotWrite(k)

ShotSpec == ShotInit /\ [][ShotNext]_vars

\* the table holds at most one row of every pair
OneRowPerPair ==
  \A i, j \in 1..Len(shots) :
    (shots[i].date = shots[j].date /\ shots[i].sector = shots[j].sector) => i = j

\* a request that found the row of its pair leaves the number of rows as it
\* is and puts its image into that row
ReplacesImage ==
  \A k \in 1..Len(uploads) :
    (uploads[k].phase = "found" /\ uploads[k].existing # 0 /\ uploads'[k].phase = "done")
      => /\ Len(shots') = Len(shots)
         /\ shots'[uploads[k].existing].imageData = uploads[k].body.imageDataUrl
         /\ shots'[uploads[k].existing].date = uploads[k].body.date
         /\ shots'[uploads[k].existing].sector = uploads[k].body.sector

\* C21: after any interleaving of uploads the table holds at most one
\* screenshot of every (date, sector) pair, and an upload that finds the row
\* of its pair replaces the image of that row and adds no row.
C21_OneScreenshotPerPair == []OneRowPerPair /\ [][ReplacesImage]_vars

\* two uploads of a pair raced, both having found no row, and a third one
\* replaced the image of the one row there is
C21_Witness ==
  /\ op = "screenshots"
  /\ Len(uploads) = 3
  /\ \A k \in 1..3 : uploads[k].phase = "done" /\ uploads[k].body.sector = "S1"
                     /\ uploads[k].body.date = FormDate
  /\ uploads[1].existing = 0 /\ uploads[2].existing = 0 /\ uploads[3].existing = 1
  /\ uploads[3].body.imageDataUrl = "I2"
  /\ Len(shots) = 1
  /\ shots[1].imageData = "I2"

(***************************************************************************)
(* The end of a submission (checked under FormSpec).                       *)
(***************************************************************************)
\* handleSubmit of the open form goes on after its await of onParsed, the
\* save having failed
SaveFailed ==
  /\ inputOpen
  /\ \E k \in 1..Len(replies) : replies' = removeAt(replies, k) /\ replies[k].status # 200

\* this step is a submission that calls onParsed
CallsOnParsed == Len(posts') > Len(posts)

\* C22: when saving fails the rows of the form are left as they are, the
\* dialog stays as it is and the form shows an error, so that the rows are
\* reset and the dialog closed by a submission only after a successful save;
\* and onParsed is not called when no row gives a record.
C22_ResetOnlyAfterSave ==
  [][/\ SaveFailed => (rows' = rows /\ inputOpen' = inputOpen /\ error' # Null)
     /\ CallsOnParsed => formRecords(rows, date) # <<>>]_vars

\* what remains of C22: onParsed is called only with at least one record,
\* and after the response to a submission, whatever its status, the form
\* is gone; a failed save shows the alert of the page
C22_FormLeftAfterAnyResponse ==
  [][/\ CallsOnParsed => formRecords(rows, date) # <<>>
     /\ (\E k \in 1..Len(replies) : replies' = removeAt(replies, k))
          => (~inputOpen' /\ rows' = <<>> /\ (inputOpen => (alerted' <=> SaveFailed)))]_vars

(***************************************************************************)
(* The stock-info lookup of a row (checked under FormSpec).                *)
(***************************************************************************)
\* this step is the end of the lookup k
LookupEnds(k) == k \in 1..Len(lookups) /\ lookups' = removeAt(lookups, k)

\* C23: the result of a lookup changes only fields of the row it was made
\* for that are empty when it is applied: fields holding a value, the code
\* and the id of that row, and all other rows stay as they are.
C23_FillsOnlyEmptyFields ==
  [][\A k \in 1..Len(lookups) :
       LookupEnds(k) =>
         /\ Len(rows') = Len(rows)
         /\ \A i \in 1..Len(rows) : \A f \in DOMAIN rows[i] :
              rows'[i][f] # rows[i][f] =>
                /\ rows[i].id = lookups[k].rowId
                /\ f \notin {"id", "code"}
                /\ rows[i][f] = <<>>]_vars

\* a row whose name and change were filled from the response while the
\* turnover the user typed was kept
C23_Witness ==
  /\ op = "form"
  /\ inputOpen
  /\ \E i \in 1..Len(rows) :
       /\ rows[i].code = <<"6", "0", "0", "5", "1", "9">>
       /\ rows[i].name = <<"Y">>
       /\ rows[i].chg = <<"2", ".", "5", "0">>
       /\ rows[i].turnover = <<"8", ".", "1">>

(***************************************************************************)
(* The debounce of the code field (checked under FormSpec).                *)
(***************************************************************************)
\* a row has at most one pending timer
OneTimerPerRow ==
  \A t1, t2 \in codeTimeouts : t1.id = t2.id => t1 = t2

\* the pending timer of a row holds the code the row shows, which is the
\* code typed last
TimerHoldsLastCode ==
  \A t \in codeTimeouts : \A i \in 1..Len(rows) :
    rows[i].id = t.id => rows[i].code = t.value

\* this step is an edit of the code of the row id
EditsCode(id) ==
  /\ edits' = edits + 1
  /\ \E i \in 1..Len(rows) : rows[i].id = id /\ rows'[i].code # rows[i].code

\* a code edit leaves the row one timer, its own
CancelsPrevious ==
  \A id \in {rows[i].id : i \in 1..Len(rows)} :
    EditsCode(id) =>
      \A t \in codeTimeouts' : t.id = id =>
        \E i \in 1..Len(rows') : rows'[i].id = id /\ t.value = rows'[i].code

\* a lookup is issued by a timer that fires, for the value of that timer,
\* which has at least 6 characters
IssuedByTimer ==
  Len(lookups') > Len(lookups) =>
    \E t \in codeTimeouts \ codeTimeouts' :
      /\ lookups' = Append(lookups, [mount |-> mount, rowId |-> t.id,
                                     code |-> cleanCode(t.value)])
      /\ Len(t.value) >= 6

\* C24: a row has at most one pending lookup timer, an edit of its code
\* cancels the timer pending before, and a lookup is issued only when a
\* timer fires, for the code typed last before it, which has at least 6
\* characters.
C24_DebouncedPerRow ==
  /\ [](OneTimerPerRow /\ TimerHoldsLastCode)
  /\ [][CancelsPrevious /\ IssuedByTimer]_vars

\* the code of a row was typed twice, 12 and then 600519, and one lookup was
\* issued, for 600519
C24_Witness ==
  /\ op = "form"
  /\ inputOpen
  /\ edits = 2
  /\ Len(rows) = 1
  /\ rows[1] = [createEmptyRow(1) EXCEPT !.code = <<"6", "0", "0", "5", "1", "9">>]
  /\ codeTimeouts = {}
  /\ Len(lookups) = 1
  /\ lookups[1].code = <<"6", "0", "0", "5", "1", "9">>
  /\ loadingCodes = {1}

\* the result of the lookup k changes a row
LookupFills(k) == LookupEnds(k) /\ rows' # rows

\* C25: the result of a lookup is applied to its row only while the code of
\* the row is still the code the lookup was issued for; a response that
\* arrives after the code was changed fills nothing.
C25_AppliedOnlyToSameCode ==
  [][\A k \in 1..Len(lookups) :
       LookupFills(k) =>
         \A i \in 1..Len(rows) :
           rows[i].id = lookups[k].rowId => cleanCode(rows[i].code) = lookups[k].code]_vars

\* what holds instead: the result is applied to the row of the lookup's id,
\* whatever code that row holds by then
C25_AppliedToRowWithId ==
  [][\A k \in 1..Len(lookups) :
       LookupFills(k) =>
         \E i \in 1..Len(rows) : rows[i].id = lookups[k].rowId /\ rows'[i] # rows[i]]_vars

(***************************************************************************)
(* StocksPage (the stocks list, lines 208-590 of its file): the records it *)
(* is given, its filter, sort and page state, the three maps of answers,   *)
(* the three refs of the automatic fetch effect, and how many requests     *)
(* each key has had from the effect and from a retry button.  A date is    *)
(* the number yyyymmdd, whose order is the order of the yyyy-mm-dd strings.*)
(* An action is the state update, the renders that follow it and their     *)
(* effects.                                                                *)
(***************************************************************************)
\* records given to the page: at most MaxStockRecords
MaxStockRecords == 2
\* records on a page of the list (10, 20 or 50 in the select): PageLimit
PageLimit == 1
\* responses that arrive: at most MaxResponses
MaxResponses == 1
\* clicks on a retry button: at most MaxRetries
MaxRetries == 1

TradingDays == {20250106, 20250107, 20250108}

NoDay == 0

NoDays == -1

StockRecordPool ==
  { [code |-> "600519", date |-> 20250106, sector |-> <<"S1">>],
    [code |-> "600519", date |-> 20250107, sector |-> <<"S2">>],
    [code |-> "002371", date |-> 20250106, sector |-> <<"S1">>] }

StockRecordLists == UNION { [1..n -> StockRecordPool] : n \in 0..MaxStockRecords }

SectorFilters == {"all", "S1"}

SortKeys == {"date", "limitUpDays"}

PageSizes == {"10", "all"}

\* lines 276-282, the trading calendar loaded
calcTradingDaysBetween(recordDate, targetDate) ==
  Cardinality({d \in TradingDays : d >= recordDate /\ d <= targetDate})

\* the key of the limit-up map is made of code and date; a key of the other
\* maps is a code, written here with no date
limitUpKey(r) == <<r.code, r.date>>

codeKey(code) == <<code, NoDay>>

\* lines 520-525
getDays(r, limitUpMap) ==
  IF limitUpKey(r) \notin DOMAIN limitUpMap THEN NoDays
  ELSE IF limitUpMap[limitUpKey(r)].loading \/ limitUpMap[limitUpKey(r)].limitUpDate = NoDay
    THEN NoDays
  ELSE calcTradingDaysBetween(r.date, limitUpMap[limitUpKey(r)].limitUpDate)

\* lines 489-528: the value a record is sorted by
sortValue(r, s) == IF s.sortKey = "date" THEN r.date ELSE getDays(r, s.limitUpMap)

\* lines 531-536
compareValues(av, bv, sortDir) ==
  IF av = NoDays /\ bv = NoDays THEN 0
  ELSE IF av = NoDays THEN 1
  ELSE IF bv = NoDays THEN -1
  ELSE IF av < bv THEN (IF sortDir = "asc" THEN -1 ELSE 1)
  ELSE IF av > bv THEN (IF sortDir = "asc" THEN 1 ELSE -1)
  ELSE 0

\* list.sort(compare): the sort is stable
RECURSIVE sortRecords(_, _)
sortRecords(list, s) ==
  IF Len(list) <= 1 THEN list
  ELSE LET front == sortRecords(SubSeq(list, 1, Len(list) - 1), s)
           x == list[Len(list)]
           k == Cardinality({i \in 1..Len(front) :
                  compareValues(sortValue(front[i], s), sortValue(x, s), s.sortDir) <= 0})
       IN  SubSeq(front, 1, k) \o <<x>> \o SubSeq(front, k + 1, Len(front))

\* lines 472-540, the search box empty
filtered(s) ==
  sortRecords(SelectSeq(s.records,
                        LAMBDA r : s.sectorFilter = "all"
                                     \/ \E i \in 1..Len(r.sector) : r.sector[i] = s.sectorFilter),
              s)

\* lines 542-551
sliceOf(list, pageSize, pageIndex) ==
  IF Len(list) = 0 THEN <<>>
  ELSE IF pageSize = "all" THEN list
  ELSE SubSeq(list, pageIndex * PageLimit + 1, Min(Len(list), pageIndex * PageLimit + PageLimit))

visibleRecords(s) == sliceOf(filtered(s), s.pageSize, s.pageIndex)

\* Math.ceil(n / limit)
pagesOf(n) == (n + PageLimit - 1) \div PageLimit

\* lines 554-563: the page index after the two effects that set it
pageEffects(s, viewChanged) ==
  LET reset == IF viewChanged THEN 0 ELSE s.pageIndex
  IN  [s EXCEPT !.pageIndex =
         IF s.pageSize = "all" THEN reset
         ELSE Min(reset, Max(1, pagesOf(Len(filtered(s)))) - 1)]

\* the keys fetched whether a ref has them or not
allKeys(keys, ref) == keys

\* lines 573, 577 and 585: the keys that the ref does not have yet
unfetched(keys, ref) == keys \ ref

\* the requests counted: one more for every key of keys
counted(fetches, kind, keys, by) ==
  LET more == {<<kind, key, by>> : key \in keys}
  IN  [t \in DOMAIN fetches \cup more |->
         (IF t \in DOMAIN fetches THEN fetches[t] ELSE 0) + (IF t \in more THEN 1 ELSE 0)]

\* lines 291-302 and 356-366: the entries of the keys are set to loading
loadingOf(map, keys) ==
  [k \in DOMAIN map \cup keys |-> IF k \in keys THEN "loading" ELSE map[k]]

\* lines 420-427
loadingLimitUp(map, keys) ==
  [k \in DOMAIN map \cup keys |->
     IF k \in keys THEN [limitUpDate |-> NoDay, loading |-> TRUE, error |-> FALSE] ELSE map[k]]

\* lines 570-590: the automatic fetch effect, given the list of this render
fetchEffectOn(s, list, visible) ==
  LET codes == {visible[i].code : i \in 1..Len(visible)}
      base == IF s.sortKey = "limitUpDays" THEN list ELSE visible
      ma20 == unfetched(codes, s.fetchedRef)
      chart == unfetched(codes, s.fetchedMa5Ma30Ref)
      limitUp == unfetched({limitUpKey(base[i]) : i \in 1..Len(base)}, s.fetchedLimitUpRef)
  IN  [s EXCEPT
         !.fetchedRef = @ \cup ma20,
         !.fetchedMa5Ma30Ref = @ \cup chart,
         !.fetchedLimitUpRef = @ \cup limitUp,
         !.ma20Map = loadingOf(@, ma20),
         !.ma5ma30Map = loadingOf(@, chart),
         !.limitUpMap = loadingLimitUp(@, limitUp),
         !.fetches = counted(counted(counted(@, "ma20", {codeKey(c) : c \in ma20}, "effect"),
                                     "daily-chart", {codeKey(c) : c \in chart}, "effect"),
                             "limit-up", limitUp, "effect")]

fetchEffect(s) ==
  fetchEffectOn(s, filtered(s), sliceOf(filtered(s), s.pageSize, s.pageIndex))

\* the renders after a state update: the effects of the first one fetch for
\* the list it shows and set the page index, those of the next one fetch for
\* the list of the new page; further renders find every key in the refs
rendered(s, viewChanged) == fetchEffect(pageEffects(fetchEffect(s), viewChanged))

\* lines 208-214, 220-225, 285, 567-569
mounted(list) ==
  [records |-> list,
   sectorFilter |-> "all",
   sortKey |-> "date",
   sortDir |-> "desc",
   pageSize |-> "10",
   pageIndex |-> 0,
   ma20Map |-> [k \in {} |-> "loading"],
   ma5ma30Map |-> [k \in {} |-> "loading"],
   limitUpMap |-> [k \in {} |-> "loading"],
   fetchedRef |-> {},
   fetchedMa5Ma30Ref |-> {},
   fetchedLimitUpRef |-> {},
   fetches |-> [t \in {} |-> 0],
   responses |-> 0,
   retries |-> 0]

\* the page after its first render and the effects of it
StocksInit ==
  /\ op = "stocks"
  /\ arg = Null
  /\ defaultDate = NoDate
  /\ today = <<>>
  /\ result = Pending
  /\ FormClosed
  /\ ShotsIdle
  /\ stocks \in {rendered(mounted(list), FALSE) : list \in StockRecordLists}
  /\ panel = Null
  /\ chat = Null

\* the parent passes other records
setRecords(list) ==
  /\ op = "stocks"
  /\ list # stocks.records
  /\ stocks' = rendered([stocks EXCEPT !.records = list], FALSE)
  /\ UNCHANGED <<callVars, formVars, shotVars, panel, chat>>

\* line 944
setSectorFilter(value) ==
  /\ op = "stocks"
  /\ value # stocks.sectorFilter
  /\ stocks' = rendered([stocks EXCEPT !.sectorFilter = value], TRUE)
  /\ UNCHANGED <<callVars, formVars, shotVars, panel, chat>>

\* lines 592-599
handleSort(key) ==
  /\ op = "stocks"
  /\ stocks' = rendered(IF stocks.sortKey = key
                          THEN [stocks EXCEPT !.sortDir = IF @ = "asc" THEN "desc" ELSE "asc"]
                          ELSE [stocks EXCEPT !.sortKey = key,
                                              !.sortDir = IF key = "limitUpDays" THEN "asc"
                                                          ELSE "desc"],
                        TRUE)
  /\ UNCHANGED <<callVars, formVars, shotVars, panel, chat>>

\* line 963
setPageSize(value) ==
  /\ op = "stocks"
  /\ value # stocks.pageSize
  /\ stocks' = rendered([stocks EXCEPT !.pageSize = value], TRUE)
  /\ UNCHANGED <<callVars, formVars, shotVars, panel, chat>>

\* lines 1170-1177
previousPage ==
  /\ op = "stocks"
  /\ stocks.pageIndex # 0
  /\ stocks' = rendered([stocks EXCEPT !.pageIndex = Max(0, @ - 1)], FALSE)
  /\ UNCHANGED <<callVars, formVars, shotVars, panel, chat>>

\* lines 1179-1193
nextPage ==
  /\ op = "stocks"
  /\ stocks.pageSize # "all"
  /\ stocks.pageIndex < pagesOf(Len(filtered(stocks))) - 1
  /\ stocks' = rendered([stocks EXCEPT
                           !.pageIndex = Min(pagesOf(Len(filtered(stocks))) - 1, @ + 1)],
                        FALSE)
  /\ UNCHANGED <<callVars, formVars, shotVars, panel, chat>>

\* lines 303-353: the answer to the MA20 request of a code
ma20Response(code, ok) ==
  /\ op = "stocks"
  /\ stocks.responses < MaxResponses
  /\ code \in DOMAIN stocks.ma20Map
  /\ stocks.ma20Map[code] = "loading"
  /\ stocks' = rendered([stocks EXCEPT !.ma20Map[code] = IF ok THEN "ok" ELSE "error",
                                       !.responses = @ + 1],
                        FALSE)
  /\ UNCHANGED <<callVars, formVars, shotVars, panel, chat>>

\* lines 367-415: the answer to the daily-chart request of a code
dailyChartResponse(code, ok) ==
  /\ op = "stocks"
  /\ stocks.responses < MaxResponses
  /\ code \in DOMAIN stocks.ma5ma30Map
  /\ stocks.ma5ma30Map[code] = "loading"
  /\ stocks' = rendered([stocks EXCEPT !.ma5ma30Map[code] = IF ok THEN "ok" ELSE "error",
                                       !.responses = @ + 1],
                        FALSE)
  /\ UNCHANGED <<callVars, formVars, shotVars, panel, chat>>

\* lines 428-456: the answer to the limit-up request of a key, an error or
\* the day of the limit-up, if there was one
limitUpResponse(key, ok, day) ==
  /\ op = "stocks"
  /\ stocks.responses < MaxResponses
  /\ key \in DOMAIN stocks.limitUpMap
  /\ stocks.limitUpMap[key].loading
  /\ stocks' = rendered([stocks EXCEPT
                           !.limitUpMap[key] = [limitUpDate |-> IF ok THEN day ELSE NoDay,
                                                loading |-> FALSE,
                                                error |-> ~ok],
                           !.responses = @ + 1],
                        FALSE)
  /\ UNCHANGED <<callVars, formVars, shotVars, panel, chat>>

\* the cells that are shown: those of the visible records
VisibleKeys == {limitUpKey(visibleRecords(stocks)[i]) : i \in 1..Len(visibleRecords(stocks))}

\* lines 625-636, 706-716 and 813-824: the retry button of a cell that shows
\* an error
retry(kind, key) ==
  /\ op = "stocks"
  /\ stocks.retries < MaxRetries
  /\ \E shown \in VisibleKeys :
       IF kind = "limit-up" THEN key = shown ELSE key = codeKey(shown[1])
  /\ CASE kind = "ma20" ->
            /\ stocks.ma20Map[key[1]] = "error"
            /\ stocks' = rendered([stocks EXCEPT
                   !.ma20Map = loadingOf(@, {key[1]}),
                   !.fetches = counted(@, kind, {key}, "retry"),
                   !.retries = @ + 1], FALSE)
       [] kind = "daily-chart" ->
            /\ stocks.ma5ma30Map[key[1]] = "error"
            /\ stocks' = rendered([stocks EXCEPT
                   !.ma5ma30Map = loadingOf(@, {key[1]}),
                   !.fetches = counted(@, kind, {key}, "retry"),
                   !.retries = @ + 1], FALSE)
       [] kind = "limit-up" ->
            /\ stocks.limitUpMap[key].error
            /\ stocks' = rendered([stocks EXCEPT
                   !.limitUpMap = loadingLimitUp(@, {key}),
                   !.fetches = counted(@, kind, {key}, "retry"),
                   !.retries = @ + 1], FALSE)
  /\ UNCHANGED <<callVars, formVars, shotVars, panel, chat>>

\* what the limit-up service answers: no limit-up, or the day of it
LimitUpDays == {NoDay, 20250107}

StockCodes == {r.code : r \in StockRecordPool}

StockKeys == {limitUpKey(r) : r \in StockRecordPool}

StocksNext ==
  \/ \E list \in StockRecordLists : setRecords(list)
  \/ \E value \in SectorFilters : setSectorFilter(value)
  \/ \E key \in SortKeys : handleSort(key)
  \/ \E value \in PageSizes : setPageSize(value)
  \/ previousPage
  \/ nextPage
  \/ \E code \in StockCodes, ok \in BOOLEAN : ma20Response(code, ok)
  \/ \E code \in StockCodes, ok \in BOOLEAN : dailyChartResponse(code, ok)
  \/ \E key \in StockKeys, ok \in BOOLEAN, day \in LimitUpDays :
       limitUpResponse(key, ok, day)
  \/ \E kind \in {"ma20", "daily-chart"}, code \in StockCodes : retry(kind, codeKey(code))
  \/ \E key \in StockKeys : retry("limit-up", key)

StocksSpec == StocksInit /\ [][StocksNext]_vars

\* the requests a key has had from the effect, and from a retry button
FetchesOf(kind, key, by) ==
  IF <<kind, key, by>> \in DOMAIN stocks.fetches THEN stocks.fetches[<<kind, key, by>>] ELSE 0

\* C26: the automatic fetch effect issues at most one MA20 request and at
\* most one daily-chart request for a code and at most one limit-up request
\* for a (code, date); a key has further requests only from a retry button,
\* which a cell shows only after the request of the effect.
C26_OneAutomaticFetchPerKey ==
  op = "stocks" =>
    \A t \in DOMAIN stocks.fetches :
      /\ t[3] = "effect" => stocks.fetches[t] <= 1
      /\ t[3] = "retry" => FetchesOf(t[1], t[2], "effect") = 1

\* the records were replaced and the list sorted by limit-up days: both
\* records of 600519 have had their limit-up request, the code has had one
\* MA20 request from the effect and one from the retry button
C26_Witness ==
  /\ op = "stocks"
  /\ stocks.sortKey = "limitUpDays"
  /\ FetchesOf("ma20", codeKey("600519"), "effect") = 1
  /\ FetchesOf("ma20", codeKey("600519"), "retry") = 1
  /\ FetchesOf("limit-up", <<"600519", 20250106>>, "effect") = 1
  /\ FetchesOf("limit-up", <<"600519", 20250107>>, "effect") = 1
  /\ FetchesOf("daily-chart", codeKey("002371"), "effect") = 1

(***************************************************************************)
(* getMA20 and getMA20WithOhlc (the Tushare client, lines 216-347) called  *)
(* on the daily rows that getDailyRange returns.  A price is a number with *)
(* two decimals; a trade date is the number yyyymmdd, whose order is the   *)
(* order of the yyyymmdd strings.                                          *)
(***************************************************************************)
\* the rows of the average: last20 is sorted.slice(0, 20)
MaWindow == 20
\* rows older than the window in the data: at most MaxOlderRows
MaxOlderRows == 1

\* a >= b for two numbers, as in JavaScript false when one is NaN
NumGEQ(a, b) == ~a.nan /\ ~b.nan /\ a.m * Pow10(b.s) >= b.m * Pow10(a.s)

\* the sum of the closes of the rows of a list
RECURSIVE sumOfCloses(_)
sumOfCloses(list) ==
  IF Len(list) = 0 THEN 0
  ELSE sumOfCloses(SubSeq(list, 1, Len(list) - 1)) + list[Len(list)].close.m * Pow10(2 - list[Len(list)].close.s)

\* lines 252-253: the mean of the closes of last20, exact: the sum of the
\* prices in hundredths is s, the mean is s / 2000 = 5 s / 10^4
meanOfCloses(last20) == MkNum(5 * sumOfCloses(last20), 4)

\* Math.round(x * 100) / 100
roundToCents(x) == MkNum((2 * x.m * 100 + Pow10(x.s)) \div (2 * Pow10(x.s)), 2)

\* lines 249-251: [...rows].sort by trade_date, newest first; the sort is
\* stable
newestFirst(daily) ==
  LET place(i) == Cardinality({j \in 1..Len(daily) :
                     \/ daily[j].trade_date > daily[i].trade_date
                     \/ daily[j].trade_date = daily[i].trade_date /\ j < i}) + 1
  IN  [k \in 1..Len(daily) |-> daily[CHOOSE i \in 1..Len(daily) : place(i) = k]]

\* lines 263-270 and 324-327
statusOf(latestClose, latestHigh, ma20) ==
  IF NumGEQ(latestClose, ma20) THEN "above"
  ELSE IF NumGEQ(latestHigh, ma20) THEN "touched"
  ELSE "below"

\* lines 252-278 and 316-346: what is returned for the sorted rows
ma20Of(sorted) ==
  LET ma20 == meanOfCloses(SubSeq(sorted, 1, MaWindow))
  IN  [ma20 |-> roundToCents(ma20),
       latestClose |-> roundToCents(sorted[1].close),
       latestHigh |-> roundToCents(sorted[1].high),
       latestTradeDate |-> sorted[1].trade_date,
       status |-> statusOf(sorted[1].close, sorted[1].high, ma20)]

\* lines 216-284
getMA20(daily) ==
  IF Len(daily) = 0 THEN [t |-> "threw"]
  ELSE IF Len(daily) < MaWindow THEN [t |-> "threw"]
  ELSE [t |-> "returned", v |-> ma20Of(newestFirst(daily))]

\* lines 297-347; the candles of the chart are left out
getMA20WithOhlc(daily) ==
  IF Len(daily) < MaWindow THEN [t |-> "returned", v |-> Null]
  ELSE [t |-> "returned", v |-> ma20Of(newestFirst(daily))]

\* the day of the row i of the data, the latest one being row 1
DayOf(i) == 20250131 - i

\* the data of a stock, newest first: the latest row with its close and high,
\* then MaWindow - 1 rows of which the first higher close at 10.01 and the
\* others at 10.00, then older rows far above
DailyRowsOf(close, high, higher, older) ==
  [i \in 1..(MaWindow + older) |->
     [trade_date |-> DayOf(i),
      close |-> IF i = 1 THEN close
                ELSE IF i <= 1 + higher THEN MkNum(1001, 2)
                ELSE IF i <= MaWindow THEN MkNum(1000, 2)
                ELSE MkNum(9900, 2),
      high |-> IF i = 1 THEN high ELSE MkNum(1010, 2)]]

reversed(list) == [i \in 1..Len(list) |-> list[Len(list) + 1 - i]]

LatestCloses == {MkNum(999, 2), MkNum(1000, 2), MkNum(1001, 2)}

LatestHighs == {MkNum(1000, 2), MkNum(1001, 2), MkNum(1002, 2)}

DailyRows ==
  LET prices == {p \in LatestCloses \X LatestHighs : NumGEQ(p[2], p[1])}
      full == { DailyRowsOf(p[1], p[2], higher, older) :
                  p \in prices, higher \in 0..(MaWindow - 1), older \in 0..MaxOlderRows }
  IN  full \cup {reversed(daily) : daily \in full}
        \cup {<<>>, SubSeq(DailyRowsOf(MkNum(1000, 2), MkNum(1000, 2), 0, 0), 1, MaWindow - 1)}

Ma20Init ==
  /\ op \in {"getMA20", "getMA20WithOhlc"}
  /\ arg \in DailyRows
  /\ defaultDate = NoDate
  /\ today = <<>>
  /\ result = Pending
  /\ FormClosed
  /\ PagesIdle

CallGetMA20 ==
  /\ op = "getMA20"
  /\ result = Pending
  /\ result' = getMA20(arg)
  /\ UNCHANGED <<op, arg, defaultDate, today, formVars, pageVars>>

CallGetMA20WithOhlc ==
  /\ op = "getMA20WithOhlc"
  /\ result = Pending
  /\ result' = getMA20WithOhlc(arg)
  /\ UNCHANGED <<op, arg, defaultDate, today, formVars, pageVars>>

Ma20Next == CallGetMA20 \/ CallGetMA20WithOhlc

Ma20Spec == Ma20Init /\ [][Ma20Next]_vars

\* a call has returned the figures of a stock
Ma20Returned ==
  /\ op \in {"getMA20", "getMA20WithOhlc"}
  /\ result.t = "returned"
  /\ result.v # Null

\* C27: the status returned agrees with the numbers returned with it: it is
\* "above" iff latestClose >= ma20, "touched" iff latestHigh >= ma20 and
\* latestClose < ma20, and "below" iff latestHigh < ma20.
C27_StatusAgreesWithNumbers ==
  Ma20Returned =>
    /\ result.v.status = "above" <=> NumGEQ(result.v.latestClose, result.v.ma20)
    /\ result.v.status = "touched" <=> (/\ NumGEQ(result.v.latestHigh, result.v.ma20)
                                        /\ ~NumGEQ(result.v.latestClose, result.v.ma20))
    /\ result.v.status = "below" <=> ~NumGEQ(result.v.latestHigh, result.v.ma20)

\* what holds instead: the status is the one of the latest close and high
\* against the mean of the 20 most recent closes before it is rounded, and
\* the ma20 returned is that mean rounded to hundredths
C27_StatusOfUnroundedMean ==
  Ma20Returned =>
    LET sorted == newestFirst(arg)
        mean == MkNum(5 * sumOfCloses(SubSeq(sorted, 1, MaWindow)), 4)
    IN  /\ result.v.status = "above" <=> NumGEQ(sorted[1].close, mean)
        /\ result.v.status = "touched" <=> (NumGEQ(sorted[1].high, mean) /\ ~NumGEQ(sorted[1].close, mean))
        /\ result.v.status = "below" <=> ~NumGEQ(sorted[1].high, mean)
        /\ 2 * 100 * mean.m - Pow10(mean.s) <= 2 * Pow10(mean.s) * result.v.ma20.m * Pow10(2 - result.v.ma20.s)
        /\ 2 * Pow10(mean.s) * result.v.ma20.m * Pow10(2 - result.v.ma20.s) <= 2 * 100 * mean.m + Pow10(mean.s)

(***************************************************************************)
(* HistoryPanel, the calendar of operation-suggestions.tsx: the month      *)
(* viewed, the date and the sector selected, and the handlers that change  *)
(* them.  selectedDate and selectedSector are null or a string; a selected *)
(* sector is the string `${dateStr}|${sector}`.                            *)
(***************************************************************************)
MaxMonthMoves == 2
MaxCalResponses == 1

\* lines 107-109: new Date(year, month + 1, 0).getDate(), month from 0
getMonthDays(year, month) ==
  IF month = 1
    THEN IF (year % 4 = 0 /\ year % 100 # 0) \/ year % 400 = 0 THEN 29 ELSE 28
    ELSE IF month \in {3, 5, 8, 10} THEN 30 ELSE 31

\* Date.prototype.getDay for a calendar day, 0 for Sunday; month from 1
MonthOffsets == <<0, 3, 2, 5, 0, 3, 5, 1, 4, 6, 2, 4>>
getDay(year, month, day) ==
  LET y == IF month < 3 THEN year - 1 ELSE year
  IN (y + (y \div 4) - (y \div 100) + (y \div 400) + MonthOffsets[month] + day) % 7

\* line 224: the dateStr of a cell, year-month-day with two-digit month and day
cellDateStr(year, month, day) ==
  natToString(year) \o <<"-">> \o padStart(natToString(month + 1), 2)
    \o <<"-">> \o padStart(natToString(day), 2)

\* lines 121-131: not a Saturday, not a Sunday, not a holiday of the trade
\* calendar; new Date(dateStr) reads the three numbers of the string
isTradingDay(dateStr, nonTradingDays) ==
  LET parts == split(dateStr, {"-"})
      dayOfWeek == getDay(digitsVal(parts[1], 1, Len(parts[1])),
                          digitsVal(parts[2], 1, Len(parts[2])),
                          digitsVal(parts[3], 1, Len(parts[3])))
  IN dayOfWeek \notin {0, 6} /\ dateStr \notin nonTradingDays

\* lines 200-211: dateMap.get(dateStr)?.records, empty for a day without records
dateMapGet(records, dateStr) == SelectSeq(records, LAMBDA r : r.date = dateStr)

\* lines 356-365: the sectors of the records of a day
getDaySectors(data) == UNION {Range(data[i].sector) : i \in 1..Len(data)}

\* lines 218-226: the dateStr of the cells of the month viewed
cells(p) == {cellDateStr(p.viewYear, p.viewMonth, d) : d \in 1..getMonthDays(p.viewYear, p.viewMonth)}

\* lines 265-266, 269-270: selectedSector.split("|")[0] and [1]
sectorDate(selectedSector) == split(selectedSector, {"|"})[1]
selectedSectorName(selectedSector) == split(selectedSector, {"|"})[2]

\* the records the panel is given, and the sectors that have a screenshot only
PanelRecords ==
  <<[date |-> cellDateStr(2025, 0, 6), sector |-> <<<<"u767D", "u9152">>, <<"A", "|", "B">>>>],
    [date |-> cellDateStr(2024, 11, 31), sector |-> <<<<"u767D", "u9152">>>>],
    [date |-> cellDateStr(2025, 0, 6), sector |-> <<<<"A", "|", "B">>>>]>>
ScreenshotSectors == {<<"u9502", "u7535">>}
Holidays == {cellDateStr(2025, 0, 1)}

\* lines 157-172: the state of a panel mounted in the month of today
PanelInit ==
  /\ op = "panel"
  /\ arg = Null
  /\ defaultDate = NoDate
  /\ today = <<>>
  /\ result = Pending
  /\ FormClosed
  /\ ShotsIdle
  /\ stocks = Null
  /\ chat = Null
  /\ \E view \in {<<2024, 11>>, <<2025, 0>>} :
       panel = [records |-> PanelRecords,
                viewYear |-> view[1], viewMonth |-> view[2],
                selectedDate |-> Null, selectedSector |-> Null,
                nonTradingDays |-> {}, moves |-> 0, calResponses |-> 0]

PanelShown == op = "panel" /\ ~inputOpen
panelOnly == UNCHANGED <<callVars, formVars, shotVars, stocks, chat>>

\* lines 228-236
prevMonth ==
  /\ PanelShown
  /\ panel.moves < MaxMonthMoves
  /\ panel' = [panel EXCEPT
       !.viewYear = IF panel.viewMonth = 0 THEN @ - 1 ELSE @,
       !.viewMonth = IF @ = 0 THEN 11 ELSE @ - 1,
       !.selectedDate = Null,
       !.moves = @ + 1]
  /\ panelOnly

\* lines 238-246
nextMonth ==
  /\ PanelShown
  /\ panel.moves < MaxMonthMoves
  /\ panel' = [panel EXCEPT
       !.viewYear = IF panel.viewMonth = 11 THEN @ + 1 ELSE @,
       !.viewMonth = IF @ = 11 THEN 0 ELSE @ + 1,
       !.selectedDate = Null,
       !.moves = @ + 1]
  /\ panelOnly

\* lines 472-488: a click on the cell of a day
clickCell(dateStr) ==
  /\ PanelShown
  /\ dateStr \in cells(panel)
  /\ isTradingDay(dateStr, panel.nonTradingDays)
  /\ panel' =
       IF panel.selectedDate = JStr(dateStr)
         THEN IF panel.selectedSector # Null
                THEN [panel EXCEPT !.selectedSector = Null]
                ELSE [panel EXCEPT !.selectedDate = Null]
         ELSE [panel EXCEPT !.selectedDate = JStr(dateStr), !.selectedSector = Null]
  /\ panelOnly

\* lines 489-494: a double click on the cell of a day selects it and opens
\* the entry dialog, which mounts the form for that date
doubleClickCell(dateStr) ==
  /\ PanelShown
  /\ mount < MaxMounts
  /\ dateStr \in cells(panel)
  /\ isTradingDay(dateStr, panel.nonTradingDays)
  /\ panel' = [panel EXCEPT !.selectedDate = JStr(dateStr), !.selectedSector = Null]
  /\ inputOpen' = TRUE
  /\ mount' = mount + 1
  /\ date' = dateStr
  /\ rows' = <<createEmptyRow(1)>>
  /\ error' = Null
  /\ loadingCodes' = {}
  /\ codeTimeouts' = {}
  /\ UNCHANGED <<callVars, shotVars, stocks, chat, lookups, edits, posts, replies, stored, alerted>>

\* lines 536-541 (and 542-550 from the keyboard): a sector chip of a cell
clickChip(dateStr, s) ==
  /\ PanelShown
  /\ dateStr \in cells(panel)
  /\ isTradingDay(dateStr, panel.nonTradingDays)
  /\ s \in getDaySectors(dateMapGet(panel.records, dateStr))
  /\ panel' = [panel EXCEPT !.selectedDate = JStr(dateStr),
                            !.selectedSector = JStr(dateStr \o <<"|">> \o s)]
  /\ panelOnly

\* lines 630-638: 'back to sector list', shown while a sector is selected
backToSectorList ==
  /\ PanelShown
  /\ panel.selectedSector # Null
  /\ panel' = [panel EXCEPT !.selectedSector = Null]
  /\ panelOnly

\* lines 737-768: a sector of the list of the selected date, shown while a date
\* with records is selected and no sector is; the list holds the sectors of the
\* records of the day and those of its screenshots (lines 283-300)
clickListedSector(s) ==
  /\ PanelShown
  /\ panel.selectedSector = Null
  /\ panel.selectedDate # Null
  /\ dateMapGet(panel.records, panel.selectedDate.v) # <<>>
  /\ s \in getDaySectors(dateMapGet(panel.records, panel.selectedDate.v)) \cup ScreenshotSectors
  /\ panel' = [panel EXCEPT !.selectedSector = JStr(panel.selectedDate.v \o <<"|">> \o s)]
  /\ panelOnly

\* lines 175-197: the trade calendar requested for the month viewed arrives
loadTradeCal(nonTradingDays) ==
  /\ op = "panel"
  /\ panel.calResponses < MaxCalResponses
  /\ panel' = [panel EXCEPT !.nonTradingDays = nonTradingDays, !.calResponses = @ + 1]
  /\ panelOnly

\* the days of the month that are clicked, and the sectors of the chips
PanelDays == {1, 6, 7, 31}
PanelSectors == UNION {Range(PanelRecords[i].sector) : i \in 1..Len(PanelRecords)}
cellOf(day) == cellDateStr(panel.viewYear, panel.viewMonth, day)

PanelNext ==
  \/ prevMonth
  \/ nextMonth
  \/ \E day \in PanelDays : clickCell(cellOf(day))
  \/ \E day \in PanelDays : doubleClickCell(cellOf(day))
  \/ \E day \in PanelDays, s \in PanelSectors : clickChip(cellOf(day), s)
  \/ backToSectorList
  \/ \E s \in PanelSectors \cup ScreenshotSectors : clickListedSector(s)
  \/ \E days \in SUBSET Holidays : loadTradeCal(days)
  \/ onOpenChange

PanelSpec == PanelInit /\ [][PanelNext]_vars

\* C28: in every reachable state of the calendar panel a selected sector comes
\* with a selected date, and that date is the date part of the selected sector
C28_SectorImpliesDate ==
  (op = "panel" /\ panel.selectedSector # Null)
    => /\ panel.selectedDate # Null
       /\ panel.selectedDate.v = sectorDate(panel.selectedSector.v)

\* what does hold: a selected sector names a trading-day cell that had that
\* sector or a screenshot, and a selected date that goes with a selected sector
\* is the date part of it
C28_DateAgreesWhenBothSelected ==
  (op = "panel" /\ panel.selectedSector # Null /\ panel.selectedDate # Null)
    => panel.selectedDate.v = sectorDate(panel.selectedSector.v)

(***************************************************************************)
(* AskAI, the chat panel of src/unnamed/part_006: messages, input, loading *)
(* and error, the requests to /api/ai/chat that are in flight, each with   *)
(* the messages it was sent from, and the number of sends so far.          *)
(***************************************************************************)
MaxSends == 3

ChatInputs == {<<>>, <<" ">>, <<"q">>, <<" ", "r">>}

\* what fetch and res.json() can deliver: a reply with or without content, a
\* refusal with or without an error text, a body that is not JSON, no answer
ChatResponses ==
  {[ok |-> TRUE, json |-> TRUE, content |-> JStr(<<"a">>), error |-> Undefined],
   [ok |-> TRUE, json |-> TRUE, content |-> Undefined, error |-> Undefined],
   [ok |-> FALSE, json |-> TRUE, content |-> Undefined, error |-> JStr(<<"e">>)],
   [ok |-> FALSE, json |-> TRUE, content |-> Undefined, error |-> Undefined],
   [ok |-> FALSE, json |-> FALSE, content |-> Undefined, error |-> Undefined],
   [ok |-> TRUE, json |-> FALSE, content |-> Undefined, error |-> Undefined]}

\* lines 14-17
ChatInit ==
  /\ op = "chat"
  /\ arg = Null
  /\ defaultDate = NoDate
  /\ today = <<>>
  /\ result = Pending
  /\ FormClosed
  /\ ShotsIdle
  /\ stocks = Null
  /\ panel = Null
  /\ chat = [messages |-> <<>>, input |-> <<>>, loading |-> FALSE, error |-> Null,
             inFlight |-> <<>>, sends |-> 0]

chatOnly == UNCHANGED <<callVars, formVars, shotVars, stocks, panel>>

\* line 118: onChange of the input; the handler has no condition of its own
setInput(text) ==
  /\ op = "chat"
  /\ chat' = [chat EXCEPT !.input = text]
  /\ chatOnly

\* prev.slice(0, -1) that drops nothing
sliceNothing(prev) == prev

\* lines 50, 60: prev.slice(0, -1)
sliceLast(prev) == SubSeq(prev, 1, Len(prev) - 1)

\* lines 24-45: handleSend up to the await of fetch
handleSend ==
  /\ op = "chat"
  /\ LET text == trim(chat.input)
         userMsg == [role |-> "user", content |-> text]
     IN IF text = <<>> \/ chat.loading
          THEN UNCHANGED chat
          ELSE /\ chat.sends < MaxSends
               /\ chat' = [chat EXCEPT
                    !.input = <<>>,
                    !.error = Null,
                    !.messages = Append(@, userMsg),
                    !.loading = TRUE,
                    !.inFlight = Append(@, [before |-> chat.messages,
                                            messages |-> Append(chat.messages, userMsg)]),
                    !.sends = @ + 1]
  /\ chatOnly

\* lines 46-63: handleSend from the answer of fetch on
chatResponse(k, res) ==
  /\ op = "chat"
  /\ k \in 1..Len(chat.inFlight)
  /\ chat' = [chat EXCEPT
       !.inFlight = SubSeq(@, 1, k - 1) \o SubSeq(@, k + 1, Len(@)),
       !.error = IF ~res.json THEN JStr(<<"u7F51", "u7EDC", "u9519", "u8BEF">>)
                 ELSE IF ~res.ok
                   THEN IF truthy(res.error) THEN res.error
                        ELSE JStr(<<"u8BF7", "u6C42", "u5931", "u8D25">>)
                   ELSE @,
       !.messages = IF res.json /\ res.ok
                      THEN Append(@, [role |-> "assistant",
                                      content |-> IF truthy(res.content) THEN res.content.v ELSE <<>>])
                      ELSE sliceLast(@),
       !.loading = FALSE]
  /\ chatOnly

ChatNext ==
  \/ \E text \in ChatInputs : setInput(text)
  \/ handleSend
  \/ \E k \in 1..MaxSends, res \in ChatResponses : chatResponse(k, res)

ChatSpec == ChatInit /\ [][ChatNext]_vars

\* at most one request is outstanding, and loading says whether there is one
OneOutstanding ==
  op = "chat" => /\ Len(chat.inFlight) <= 1
                 /\ chat.loading <=> chat.inFlight # <<>>

\* a step taken while a request is in flight sends nothing
IgnoredWhileInFlight ==
  (op = "chat" /\ chat.loading)
    => /\ Len(chat'.inFlight) <= Len(chat.inFlight)
       /\ chat'.sends = chat.sends

\* a step that ends a request leaves loading false; if it reports an error the
\* messages are those from before the send of that request
RestoredOnFailure ==
  (op = "chat" /\ Len(chat'.inFlight) < Len(chat.inFlight))
    => /\ ~chat'.loading
       /\ chat'.error # Null => chat'.messages = chat.inFlight[1].before
       /\ chat'.error = Null =>
            /\ Len(chat'.messages) = Len(chat.inFlight[1].messages) + 1
            /\ SubSeq(chat'.messages, 1, Len(chat.messages)) = chat.inFlight[1].messages

\* C29: a send is ignored while a request is in flight, so at most one is
\* outstanding; a failed request restores the messages to those before its
\* send; loading is false once the request has finished
C29_OneRequestRestoredOnFailure ==
  []OneOutstanding /\ [][IgnoredWhileInFlight /\ RestoredOnFailure]_vars

C29_Witness ==
  /\ op = "chat"
  /\ chat.error # Null
  /\ ~chat.loading
  /\ chat.sends >= 2
  /\ Len(chat.messages) >= 2

====
